---- MODULE Spec2Model ----
(***************************************************************************)
(* Model of the SDKComparison React component (enhanced variant:           *)
(* src/src/components/SDKComparison.tsx, simple variant:                   *)
(* src/unnamed/part_000).                                                  *)
(*                                                                         *)
(* Strings are sequences of one-character strings, so that the regular     *)
(* expression of toCamelCase, toLowerCase and String.includes are computed *)
(* character by character.                                                 *)
(***************************************************************************)
EXTENDS Integers, Sequences, FiniteSets, TLC

VARIABLES
  tsData,       \* props.tsData.classes
  pythonData,   \* props.pythonData.classes
  ident,        \* the identifier handed to toCamelCase / getMethodComparisonStatus
  cname,        \* the class whose card calls getMethodComparisonStatus
  origin,       \* currentSdkName of that call: "ts" or "python"
  norm1,        \* toCamelCase(ident), once computed
  norm2,        \* toCamelCase(norm1), once computed
  status,       \* result of getMethodComparisonStatus, once computed
  stage,        \* which of the calls above have been made
  variant,      \* "enhanced" (SDKComparison.tsx) or "simple" (part_000)
  showCommon, showTsOnly, showPythonOnly, hideEmptyClasses,
  searchTerm,
  showLeaderboard, showRatioLeaderboard, showTsRatioLeaderboard,
  expandedCodeSnippets,  \* Set of snippet keys shown expanded
  codeSnippets,          \* Map from snippet key to the fetched snippet
  loadingSnippets,       \* Set of snippet keys shown as loading
  inFlight,              \* per key, the calls of fetchCodeSnippet awaiting
                         \* their response
  fetches,               \* per key, how many fetches were started (history)
  expansions,            \* per key, how often it was expanded (history)
  expandedClasses,       \* Set of the class names whose cards are expanded
  hideCommonMethods,     \* Set of `${sdkName}-${className}` hiding shared methods
  sortByLength,          \* Set of `${sdkName}-${className}` sorted by length
  expandedSnippets,      \* Set of snippet keys shown with more lines
  tsScrollTop,           \* tsScrollRef.current.scrollTop
  pythonScrollTop,       \* pythonScrollRef.current.scrollTop
  isScrollingRef,        \* isScrollingRef.current, the re-entrancy guard
  scrollTimers,          \* the setTimeout callbacks of handleScroll not yet run
  scrollEvents,          \* per column, what caused its scroll event not yet
                         \* handled: a subset of {"user", "mirror"}
  scrollMax              \* per column, scrollHeight - clientHeight

dataVars == <<tsData, pythonData, variant>>
callVars == <<ident, cname, origin, norm1, norm2, status, stage>>
filterVars == <<showCommon, showTsOnly, showPythonOnly, hideEmptyClasses,
                searchTerm>>
boardVars == <<showLeaderboard, showRatioLeaderboard, showTsRatioLeaderboard>>
snipVars == <<expandedCodeSnippets, codeSnippets, loadingSnippets, inFlight,
              fetches, expansions>>
cardVars == <<expandedClasses, hideCommonMethods, sortByLength>>
contextVars == <<expandedSnippets>>
scrollVars == <<tsScrollTop, pythonScrollTop, isScrollingRef, scrollTimers,
                scrollEvents, scrollMax>>
vars == <<dataVars, callVars, filterVars, boardVars, snipVars, cardVars,
          contextVars, scrollVars>>

\* JavaScript's undefined, where a string value is expected
Undefined == "undefined"

-----------------------------------------------------------------------------
(* Characters and strings *)

LowerAZ == <<"a","b","c","d","e","f","g","h","i","j","k","l","m",
             "n","o","p","q","r","s","t","u","v","w","x","y","z">>
UpperAZ == <<"A","B","C","D","E","F","G","H","I","J","K","L","M",
             "N","O","P","Q","R","S","T","U","V","W","X","Y","Z">>

\* the character class [a-z] of the regular expression
IsLowerAZ(c) == \E i \in 1..26 : LowerAZ[i] = c
IsUpperAZ(c) == \E i \in 1..26 : UpperAZ[i] = c

\* String.prototype.toUpperCase / toLowerCase on one character
toUpperCaseChar(c) ==
  IF IsLowerAZ(c) THEN UpperAZ[CHOOSE i \in 1..26 : LowerAZ[i] = c] ELSE c
toLowerCaseChar(c) ==
  IF IsUpperAZ(c) THEN LowerAZ[CHOOSE i \in 1..26 : UpperAZ[i] = c] ELSE c

\* String.prototype.toLowerCase
toLowerCase(s) == [i \in 1..Len(s) |-> toLowerCaseChar(s[i])]

\* str.replace(/_([a-z])/g, (_, letter) => letter.toUpperCase()), scanning
\* from position i: a match consumes the underscore and the letter.
RECURSIVE CamelFrom(_, _)
CamelFrom(s, i) ==
  IF i > Len(s) THEN <<>>
  ELSE IF s[i] = "_" /\ i < Len(s) /\ IsLowerAZ(s[i+1])
       THEN <<toUpperCaseChar(s[i+1])>> \o CamelFrom(s, i + 2)
       ELSE <<s[i]>> \o CamelFrom(s, i + 1)

\* The same replacement with the callback returning the letter as it is.
CamelNoUpper(s) ==
  LET RECURSIVE F(_)
      F(i) == IF i > Len(s) THEN <<>>
              ELSE IF s[i] = "_" /\ i < Len(s) /\ IsLowerAZ(s[i+1])
                   THEN <<s[i+1]>> \o F(i + 2)
                   ELSE <<s[i]>> \o F(i + 1)
  IN F(1)

toCamelCase(s) == CamelFrom(s, 1)

-----------------------------------------------------------------------------
(* Bounded identifiers *)

MaxIdentLen == 4
IdentChars == {"a", "b", "A", "_", "1"}

SeqsUpTo(S, n) == UNION {[1..k -> S] : k \in 0..n}
Idents == SeqsUpTo(IdentChars, MaxIdentLen)

-----------------------------------------------------------------------------
(* Normalizer: an identifier is normalized, and the result normalized again *)

\* A Map without entries, and a counter per key that is 0 for every key
EmptyMap == [k \in {} |-> 0]
Count(f, k) == IF k \in DOMAIN f THEN f[k] ELSE 0

\* The useState initial values of the snippet state; nothing fetched yet
InitSnippets ==
  /\ expandedCodeSnippets = {}
  /\ codeSnippets = EmptyMap
  /\ loadingSnippets = {}
  /\ inFlight = EmptyMap
  /\ fetches = EmptyMap
  /\ expansions = EmptyMap
  /\ expandedSnippets = {}

MaxScroll == 3

\* The columns unscrolled, useRef(false), no timer and no scroll event pending
InitScroll ==
  /\ scrollMax = [c \in {"ts", "python"} |-> MaxScroll]
  /\ tsScrollTop = 0
  /\ pythonScrollTop = 0
  /\ isScrollingRef = FALSE
  /\ scrollTimers = 0
  /\ scrollEvents = [c \in {"ts", "python"} |-> {}]

\* The useState initial values of the class cards: none expanded, no toggle set
InitCards ==
  /\ expandedClasses = {}
  /\ hideCommonMethods = {}
  /\ sortByLength = {}

\* The useState initial values of the filter controls and leaderboard buttons
InitView ==
  /\ showCommon = TRUE
  /\ showTsOnly = FALSE
  /\ showPythonOnly = FALSE
  /\ hideEmptyClasses = TRUE
  /\ searchTerm = <<>>
  /\ showLeaderboard = FALSE
  /\ showRatioLeaderboard = FALSE
  /\ showTsRatioLeaderboard = FALSE

\* No call made yet.
NoCall ==
  /\ norm1 = <<>>
  /\ norm2 = <<>>
  /\ status = Undefined
  /\ stage = "start"

InitNorm ==
  /\ tsData = <<>>
  /\ pythonData = <<>>
  /\ ident \in Idents
  /\ cname = <<>>
  /\ origin = "python"
  /\ variant = "enhanced"
  /\ InitView
  /\ InitSnippets
  /\ InitCards
  /\ InitScroll
  /\ NoCall

Normalize ==
  /\ stage = "start"
  /\ norm1' = toCamelCase(ident)
  /\ stage' = "once"
  /\ UNCHANGED <<contextVars, scrollVars, dataVars, cardVars, snipVars, filterVars, boardVars, ident, cname, origin, norm2, status>>

NormalizeAgain ==
  /\ stage = "once"
  /\ norm2' = toCamelCase(norm1)
  /\ stage' = "twice"
  /\ UNCHANGED <<contextVars, scrollVars, dataVars, cardVars, snipVars, filterVars, boardVars, ident, cname, origin, norm1, status>>

NextNorm == Normalize \/ NormalizeAgain

SpecNorm == InitNorm /\ [][NextNorm]_vars

\* C7: toCamelCase(s) equals the reference normalizer, which deletes every
\* underscore of s and upper-cases the letter immediately following a deleted
\* underscore, for every identifier over letters, digits and underscores;
\* identifiers without underscores are returned unchanged.
RefNormalize(s) ==
  LET kept == {i \in 1..Len(s) : s[i] # "_"}
      RECURSIVE F(_)
      F(i) == IF i > Len(s) THEN <<>>
              ELSE IF i \notin kept THEN F(i + 1)
              ELSE IF i > 1 /\ s[i-1] = "_"
                   THEN <<toUpperCaseChar(s[i])>> \o F(i + 1)
                   ELSE <<s[i]>> \o F(i + 1)
  IN F(1)

HasUnderscore(s) == \E i \in 1..Len(s) : s[i] = "_"

C7_EqualsReference ==
  stage # "start" =>
    /\ norm1 = RefNormalize(ident)
    /\ (~HasUnderscore(ident) => norm1 = ident)

\* C8: toCamelCase is idempotent: normalizing the result of a normalization
\* changes nothing, also for identifiers with consecutive underscores.
C8_Idempotent == stage = "twice" => norm2 = norm1

C8_Witness ==
  /\ stage = "twice"
  /\ ident = <<"a", "_", "_", "b">>
  /\ norm1 = <<"a", "_", "B">>
  /\ norm2 = norm1

-----------------------------------------------------------------------------
(* SDKData: classes and methods *)

\* A line number that is absent. The code reads line numbers only through
\* `x || y`, which treats undefined and 0 alike.
NoLine == 0

Method(n, s, e, l) == [name |-> n, startLine |-> s, endLine |-> e, line |-> l]
Class(n, ms) == [name |-> n, methods |-> ms]

\* The value of Map.get for a name the map does not hold.
UndefinedClass == [name |-> <<Undefined>>, methods |-> <<>>]

Constructor == <<"c","o","n","s","t","r","u","c","t","o","r">>

\* Array.prototype.map / includes / filter
MapSeq(F(_), s) == [i \in 1..Len(s) |-> F(s[i])]
Includes(s, x) == \E i \in 1..Len(s) : s[i] = x
NameOf(m) == m.name
NotConstructor(m) == m.name # Constructor

\* new Map(classes.map((cls) => [cls.name, cls])).get(n): of several classes
\* with one name the last one is kept.
MapHas(classes, n) == \E i \in 1..Len(classes) : classes[i].name = n
MapGet(classes, n) ==
  IF MapHas(classes, n)
  THEN classes[CHOOSE i \in 1..Len(classes) :
                 /\ classes[i].name = n
                 /\ \A j \in (i+1)..Len(classes) : classes[j].name # n]
  ELSE UndefinedClass

tsClassesMapGet(n) == MapGet(tsData, n)
pythonClassesMapGet(n) == MapGet(pythonData, n)

-----------------------------------------------------------------------------
(* Cross-SDK matcher *)

\* The final if/else chain of getMethodComparisonStatus.
StatusOf(tsHasMethod, pythonHasMethod) ==
  IF tsHasMethod /\ pythonHasMethod THEN "both"
  ELSE IF tsHasMethod /\ ~pythonHasMethod THEN "ts-only"
  ELSE IF ~tsHasMethod /\ pythonHasMethod THEN "python-only"
  ELSE "missing"

\* getMethodComparisonStatus with the constructor filter left out.
StatusKeepingConstructor(methodName, tsClass, pythonClass, currentSdkName) ==
  IF tsClass = UndefinedClass \/ pythonClass = UndefinedClass THEN "missing"
  ELSE
    LET tsMethodNames == MapSeq(NameOf, tsClass.methods)
        pythonMethodNamesCamelCase ==
          MapSeq(toCamelCase, MapSeq(NameOf, pythonClass.methods))
        normalizedCurrentMethod ==
          IF currentSdkName = "python" THEN toCamelCase(methodName)
          ELSE methodName
    IN StatusOf(Includes(tsMethodNames, normalizedCurrentMethod),
                Includes(pythonMethodNamesCamelCase, normalizedCurrentMethod))

getMethodComparisonStatus(methodName, tsClass, pythonClass, currentSdkName) ==
  IF tsClass = UndefinedClass \/ pythonClass = UndefinedClass THEN "missing"
  ELSE
    LET tsMethodNames ==
          MapSeq(NameOf, SelectSeq(tsClass.methods, NotConstructor))
        pythonMethodNames == MapSeq(NameOf, pythonClass.methods)
        pythonMethodNamesCamelCase == MapSeq(toCamelCase, pythonMethodNames)
        normalizedCurrentMethod ==
          IF currentSdkName = "python" THEN toCamelCase(methodName)
          ELSE methodName
        tsHasMethod == Includes(tsMethodNames, normalizedCurrentMethod)
        pythonHasMethod ==
          Includes(pythonMethodNamesCamelCase, normalizedCurrentMethod)
    IN StatusOf(tsHasMethod, pythonHasMethod)

-----------------------------------------------------------------------------
(* Matcher inputs: one class name, present in either SDK or not, with method
   lists over a few names that the normalizer relates *)

MaxMatchMethods == 2

Name_a_b == <<"a", "_", "b">>
Name_aB == <<"a", "B">>
Name_a_B == <<"a", "_", "B">>
Name_b == <<"b">>
Name_A == <<"A">>

MatchNames == {Name_a_b, Name_aB, Name_a_B, Name_b, Constructor}

\* Sequences of at most n distinct elements of S
DistinctSeqs(S, n) ==
  {q \in SeqsUpTo(S, n) : \A i, j \in 1..Len(q) : i # j => q[i] # q[j]}

\* A method of the given name without line numbers
Named(n) == Method(n, NoLine, NoLine, NoLine)

MatchData ==
  {<<>>} \cup {<<Class(Name_A, MapSeq(Named, q))>> :
                 q \in DistinctSeqs(MatchNames, MaxMatchMethods)}

InitMatch ==
  /\ tsData \in MatchData
  /\ pythonData \in MatchData
  /\ ident \in MatchNames
  /\ cname = Name_A
  /\ origin \in {"ts", "python"}
  /\ variant \in {"simple", "enhanced"}
  /\ InitView
  /\ InitSnippets
  /\ InitCards
  /\ InitScroll
  /\ NoCall

\* renderMethodIcon calls the matcher for a method of the card of cname.
Compare ==
  /\ stage = "start"
  /\ status' = getMethodComparisonStatus(
                 ident, tsClassesMapGet(cname), pythonClassesMapGet(cname), origin)
  /\ stage' = "compared"
  /\ UNCHANGED <<contextVars, scrollVars, dataVars, cardVars, snipVars, filterVars, boardVars, ident, cname, origin, norm1, norm2>>

NextMatch == Compare

SpecMatch == InitMatch /\ [][NextMatch]_vars

\* C2: the status is "missing" when either class is absent; otherwise, with
\* n the camel-cased name for a Python origin and the name itself for a
\* TypeScript origin, it is decided by whether n is a TypeScript method name
\* other than "constructor" and whether n is a camel-cased Python method name.
\* A Python name p and the TypeScript name toCamelCase(p) get the same status.
TsNameSet(c) == {c.methods[i].name : i \in 1..Len(c.methods)} \ {Constructor}
PythonCamelSet(c) == {toCamelCase(c.methods[i].name) : i \in 1..Len(c.methods)}

C2_StatusBySets ==
  stage = "compared" =>
    LET absent == ~MapHas(tsData, cname) \/ ~MapHas(pythonData, cname)
        tsc == tsClassesMapGet(cname)
        pyc == pythonClassesMapGet(cname)
        n == IF origin = "python" THEN toCamelCase(ident) ELSE ident
        inTs == n \in TsNameSet(tsc)
        inPy == n \in PythonCamelSet(pyc)
    IN /\ absent => status = "missing"
       /\ ~absent =>
            /\ status = "both" <=> inTs /\ inPy
            /\ status = "ts-only" <=> inTs /\ ~inPy
            /\ status = "python-only" <=> ~inTs /\ inPy
            /\ status = "missing" <=> ~inTs /\ ~inPy
       /\ origin = "python" =>
            status = getMethodComparisonStatus(toCamelCase(ident), tsc, pyc, "ts")

\* A Python name whose camel-cased form is a TypeScript method: both.
C2_Witness ==
  /\ stage = "compared"
  /\ origin = "python"
  /\ ident = Name_a_b
  /\ MapHas(tsData, cname) /\ MapHas(pythonData, cname)
  /\ Includes(MapSeq(NameOf, tsClassesMapGet(cname).methods), Name_aB)
  /\ Includes(MapSeq(NameOf, tsClassesMapGet(cname).methods), Constructor)
  /\ Includes(MapSeq(NameOf, pythonClassesMapGet(cname).methods), Name_a_b)
  /\ status = "both"

-----------------------------------------------------------------------------
(* Class indexer: the union of the class names and its ordering *)

\* Array.prototype.sort with a comparator: stable; an element goes after
\* every element the comparator does not put behind it.
SortBy(s, Cmp(_, _)) ==
  LET Insert(t, x) ==
        LET after == {i \in 1..Len(t) : Cmp(t[i], x) > 0}
            k == IF after = {} THEN Len(t) + 1
                 ELSE CHOOSE i \in after : \A j \in after : i <= j
        IN SubSeq(t, 1, k - 1) \o <<x>> \o SubSeq(t, k, Len(t))
      RECURSIVE Sorted(_)
      Sorted(n) == IF n = 0 THEN <<>> ELSE Insert(Sorted(n - 1), s[n])
  IN Sorted(Len(s))

Digits == <<"0","1","2","3","4","5","6","7","8","9">>
IsDigit(c) == \E i \in 1..10 : Digits[i] = c

\* UTF-16 code unit of a character of identifiers and search strings
CharCode(c) ==
  IF IsUpperAZ(c) THEN 64 + (CHOOSE i \in 1..26 : UpperAZ[i] = c)
  ELSE IF IsLowerAZ(c) THEN 96 + (CHOOSE i \in 1..26 : LowerAZ[i] = c)
  ELSE IF IsDigit(c) THEN 47 + (CHOOSE i \in 1..10 : Digits[i] = c)
  ELSE IF c = "_" THEN 95
  ELSE 32

\* Lexicographic comparison of two strings by a character key: negative,
\* zero or positive
LexCompare(a, b, Key(_)) ==
  LET n == IF Len(a) < Len(b) THEN Len(a) ELSE Len(b)
      diff == {i \in 1..n : Key(a[i]) # Key(b[i])}
  IN IF diff = {} THEN Len(a) - Len(b)
     ELSE LET i == CHOOSE k \in diff : \A j \in diff : k <= j
          IN Key(a[i]) - Key(b[i])

\* The default comparison of Array.prototype.sort(): by code units
CodeUnitCompare(a, b) == LexCompare(a, b, CharCode)

\* a.localeCompare(b) on identifiers: letters compare without regard to case
\* first (underscore before digits before letters); strings that differ in
\* case only are ordered by their first difference, lower case first.
CollationKey(c) ==
  IF IsUpperAZ(c) \/ IsLowerAZ(c) THEN 100 + CharCode(toLowerCaseChar(c))
  ELSE IF IsDigit(c) THEN 50 + CharCode(c)
  ELSE IF c = "_" THEN 2
  ELSE 1
CaseKey(c) == IF IsUpperAZ(c) THEN 1 ELSE 0
localeCompare(a, b) ==
  LET primary == LexCompare(a, b, CollationKey)
  IN IF primary # 0 THEN primary ELSE LexCompare(a, b, CaseKey)

\* Array.from(new Set([...ts names, ...python names])): each name once, in
\* the order of its first occurrence
allClassNames ==
  LET all == MapSeq(NameOf, tsData) \o MapSeq(NameOf, pythonData)
      first == {i \in 1..Len(all) : \A j \in 1..(i-1) : all[j] # all[i]}
      RECURSIVE Pick(_)
      Pick(i) == IF i > Len(all) THEN <<>>
                 ELSE IF i \in first THEN <<all[i]>> \o Pick(i + 1)
                 ELSE Pick(i + 1)
  IN Pick(1)

\* (cls?.methods.length || 0)
MethodsLength(c) == IF c = UndefinedClass THEN 0 ELSE Len(c.methods)
\* (tsClass?.methods.filter((m) => m.name !== "constructor").length || 0)
NonConstructorLength(c) ==
  IF c = UndefinedClass THEN 0 ELSE Len(SelectSeq(c.methods, NotConstructor))

\* The method count by which the enhanced variant orders the classes
methodCount(n) ==
  NonConstructorLength(tsClassesMapGet(n)) + MethodsLength(pythonClassesMapGet(n))

\* The order by name alone.
CompareByName(a, b) == localeCompare(a, b)

CompareByMethodCount(a, b) ==
  IF methodCount(a) # methodCount(b) THEN methodCount(b) - methodCount(a)
  ELSE localeCompare(a, b)

sortedClassNames ==
  IF variant = "enhanced" THEN SortBy(allClassNames, CompareByMethodCount)
  ELSE SortBy(allClassNames, CodeUnitCompare)

-----------------------------------------------------------------------------
(* Filter engine: class-level filtering *)

\* names.join(" ")
RECURSIVE JoinSpace(_)
JoinSpace(names) ==
  IF names = <<>> THEN <<>>
  ELSE IF Len(names) = 1 THEN names[1]
  ELSE names[1] \o <<" ">> \o JoinSpace(Tail(names))

\* tsClass?.methods.map((m) => m.name).join(" ") || ""
JoinedNames(c) ==
  IF c = UndefinedClass THEN <<>> ELSE JoinSpace(MapSeq(NameOf, c.methods))

\* text.includes(q)
StrIncludes(text, q) ==
  \E k \in 0..(Len(text) - Len(q)) : \A i \in 1..Len(q) : text[k + i] = q[i]

\* The template string of the search, lower-cased
SearchText(className) ==
  toLowerCase(className \o <<" ">> \o JoinedNames(tsClassesMapGet(className))
                        \o <<" ">> \o JoinedNames(pythonClassesMapGet(className)))

\* The search test with the search term used as typed.
MatchesSearchAsTyped(className, term) ==
  term = <<>> \/ StrIncludes(SearchText(className), term)

MatchesSearch(className, term) ==
  term = <<>> \/ StrIncludes(SearchText(className), toLowerCase(term))

\* The hide-empty test counting only one SDK's methods.
PassesHideEmptyTsOnly(className) ==
  ~(hideEmptyClasses /\ MethodsLength(tsClassesMapGet(className)) = 0)

\* if (hideEmptyClasses) { ... return false }
PassesHideEmpty(className) ==
  ~(/\ hideEmptyClasses
    /\ MethodsLength(tsClassesMapGet(className)) = 0
    /\ MethodsLength(pythonClassesMapGet(className)) = 0)

\* The toggle test with the Python-only branch reading showTsOnly.
MatchesToggleSwapped(className) ==
  LET tsClass == tsClassesMapGet(className) # UndefinedClass
      pythonClass == pythonClassesMapGet(className) # UndefinedClass
  IN IF tsClass /\ pythonClass /\ showCommon THEN TRUE
     ELSE IF tsClass /\ ~pythonClass /\ showTsOnly THEN TRUE
     ELSE IF ~tsClass /\ pythonClass /\ showTsOnly THEN TRUE
     ELSE FALSE

\* let matchesToggle = false; if ... else if ... else if ...
MatchesToggle(className) ==
  LET tsClass == tsClassesMapGet(className) # UndefinedClass
      pythonClass == pythonClassesMapGet(className) # UndefinedClass
  IN IF tsClass /\ pythonClass /\ showCommon THEN TRUE
     ELSE IF tsClass /\ ~pythonClass /\ showTsOnly THEN TRUE
     ELSE IF ~tsClass /\ pythonClass /\ showPythonOnly THEN TRUE
     ELSE FALSE

\* The callback of sortedClassNames.filter, for a value of searchTerm
KeepClass(className, term) ==
  /\ PassesHideEmpty(className)
  /\ MatchesToggle(className)
  /\ MatchesSearch(className, term)

filteredClassNamesFor(term) ==
  LET Keep(className) == KeepClass(className, term)
  IN SelectSeq(sortedClassNames, Keep)

filteredClassNames == filteredClassNamesFor(searchTerm)

-----------------------------------------------------------------------------
(* Filter inputs: two class names, each absent, in one SDK or in both, with
   method lists that are empty, hold only a constructor, or hold names in
   both naming conventions; every flag combination and search string *)

MaxSearchLen == 2
SearchChars == {"b", "B", " "}
Searches == SeqsUpTo(SearchChars, MaxSearchLen)

Name_Bb == <<"B", "b">>

Named2(a, b) == <<Named(a), Named(b)>>

\* One class name: absent, TypeScript only, Python only, or in both
ClassChoices(n, tsLists, pyLists) ==
  {[ts |-> <<>>, py |-> <<>>]}
    \cup {[ts |-> <<Class(n, t)>>, py |-> <<>>] : t \in tsLists}
    \cup {[ts |-> <<>>, py |-> <<Class(n, q)>>] : q \in pyLists}
    \cup {[ts |-> <<Class(n, t)>>, py |-> <<Class(n, q)>>] :
            t \in tsLists, q \in pyLists}

FilterData ==
  LET first == ClassChoices(Name_A,
                 {<<>>, <<Named(Constructor)>>, Named2(Constructor, Name_aB)},
                 {<<>>, <<Named(Name_a_b)>>, Named2(Name_b, Name_a_B)})
      second == ClassChoices(Name_Bb, {<<Named(Name_aB)>>}, {<<>>})
  IN {[ts |-> c1.ts \o c2.ts, py |-> c2.py \o c1.py] :
        c1 \in first, c2 \in second}

InitFilter ==
  /\ \E d \in FilterData : tsData = d.ts /\ pythonData = d.py
  /\ variant \in {"simple", "enhanced"}
  /\ ident = <<>>
  /\ cname = <<>>
  /\ origin = "ts"
  /\ InitView
  /\ InitSnippets
  /\ InitCards
  /\ InitScroll
  /\ NoCall

\* onChange={(e) => setShowCommon(e.target.checked)}
SetShowCommon ==
  /\ showCommon' = ~showCommon
  /\ UNCHANGED <<contextVars, scrollVars, dataVars, cardVars, snipVars, callVars, boardVars, showTsOnly, showPythonOnly,
                 hideEmptyClasses, searchTerm>>

SetShowTsOnly ==
  /\ showTsOnly' = ~showTsOnly
  /\ UNCHANGED <<contextVars, scrollVars, dataVars, cardVars, snipVars, callVars, boardVars, showCommon, showPythonOnly,
                 hideEmptyClasses, searchTerm>>

SetShowPythonOnly ==
  /\ showPythonOnly' = ~showPythonOnly
  /\ UNCHANGED <<contextVars, scrollVars, dataVars, cardVars, snipVars, callVars, boardVars, showCommon, showTsOnly,
                 hideEmptyClasses, searchTerm>>

SetHideEmptyClasses ==
  /\ hideEmptyClasses' = ~hideEmptyClasses
  /\ UNCHANGED <<contextVars, scrollVars, dataVars, cardVars, snipVars, callVars, boardVars, showCommon, showTsOnly,
                 showPythonOnly, searchTerm>>

\* onChange={(e) => setSearchTerm(e.target.value)}
SetSearchTerm(q) ==
  /\ searchTerm' = q
  /\ UNCHANGED <<contextVars, scrollVars, dataVars, cardVars, snipVars, callVars, boardVars, showCommon, showTsOnly,
                 showPythonOnly, hideEmptyClasses>>

\* The search box changes by one keystroke: a character more, or one less.
TypeSearch ==
  \E c \in SearchChars :
    /\ Len(searchTerm) < MaxSearchLen
    /\ SetSearchTerm(Append(searchTerm, c))

EraseSearch ==
  /\ searchTerm # <<>>
  /\ SetSearchTerm(SubSeq(searchTerm, 1, Len(searchTerm) - 1))

NextFilter ==
  \/ SetShowCommon
  \/ SetShowTsOnly
  \/ SetShowPythonOnly
  \/ SetHideEmptyClasses
  \/ TypeSearch
  \/ EraseSearch

SpecFilter == InitFilter /\ [][NextFilter]_vars

\* The set of the elements of a sequence
Range(q) == {q[i] : i \in 1..Len(q)}

\* Class names of either SDK, and the methods each SDK lists under a name
NamesIn(classes) == {classes[i].name : i \in 1..Len(classes)}
UnionOfNames == NamesIn(tsData) \cup NamesIn(pythonData)
MethodNamesIn(classes, n) ==
  UNION {Range(MapSeq(NameOf, classes[i].methods)) :
           i \in {j \in 1..Len(classes) : classes[j].name = n}}

\* s occurs in t as a contiguous run of characters
IsSubstring(s, t) ==
  \E i \in 1..(Len(t) + 1) :
    i + Len(s) - 1 <= Len(t) /\ SubSeq(t, i, i + Len(s) - 1) = s

\* The concatenation the search runs over: the class name, the TypeScript
\* method names and the Python method names, separated by single spaces
Concatenation(n) ==
  JoinSpace(<<n, JoinSpace(MapSeq(NameOf, tsClassesMapGet(n).methods)),
                 JoinSpace(MapSeq(NameOf, pythonClassesMapGet(n).methods))>>)

\* (a) hide-empty is off or some SDK has a method under the name
CondNotEmpty(n) ==
  \/ ~hideEmptyClasses
  \/ MethodNamesIn(tsData, n) # {}
  \/ MethodNamesIn(pythonData, n) # {}

\* (b) the flag of the name's presence pattern is on
CondVisible(n) ==
  /\ (n \in NamesIn(tsData) /\ n \in NamesIn(pythonData)) => showCommon
  /\ (n \in NamesIn(tsData) /\ n \notin NamesIn(pythonData)) => showTsOnly
  /\ (n \notin NamesIn(tsData) /\ n \in NamesIn(pythonData)) => showPythonOnly

\* (c) the search is empty or a case-insensitive substring of the concatenation
CondSearch(n, q) ==
  q = <<>> \/ IsSubstring(toLowerCase(q), toLowerCase(Concatenation(n)))

\* C4: a class name of either SDK is in the filtered list iff (a) and (b) and
\* (c), for every combination of the four flags and the search string; a
\* class of both SDKs without any method is excluded when hide-empty is on
\* and, when it is off and show-common is on, included if the search matches.
C4_FilterIff ==
  /\ Range(filteredClassNames) \subseteq UnionOfNames
  /\ \A n \in UnionOfNames :
       /\ n \in Range(filteredClassNames)
            <=> CondNotEmpty(n) /\ CondVisible(n) /\ CondSearch(n, searchTerm)
       /\ ( /\ n \in NamesIn(tsData) /\ n \in NamesIn(pythonData)
            /\ MethodNamesIn(tsData, n) = {} /\ MethodNamesIn(pythonData, n) = {} )
          => /\ hideEmptyClasses => n \notin Range(filteredClassNames)
             /\ (~hideEmptyClasses /\ showCommon /\ CondSearch(n, searchTerm))
                  => n \in Range(filteredClassNames)

\* A class of both SDKs without methods is listed once hide-empty is off and
\* the search matches it, next to a class that the search rules out.
C4_Witness ==
  /\ ~hideEmptyClasses /\ showCommon /\ showTsOnly
  /\ searchTerm = <<" ", " ">>
  /\ MapHas(tsData, Name_A) /\ MapHas(pythonData, Name_A)
  /\ tsClassesMapGet(Name_A).methods = <<>>
  /\ pythonClassesMapGet(Name_A).methods = <<>>
  /\ MapHas(tsData, Name_Bb) /\ ~MapHas(pythonData, Name_Bb)
  /\ filteredClassNames = <<Name_A>>

\* C5: with the three visibility flags off the filtered list is empty for
\* every search string and hide-empty value; a class of Python alone with a
\* method is listed when show-python-only is on and the search is empty,
\* whatever show-common and show-ts-only are.
C5_Visibility ==
  /\ (~showCommon /\ ~showTsOnly /\ ~showPythonOnly) => filteredClassNames = <<>>
  /\ \A n \in NamesIn(pythonData) \ NamesIn(tsData) :
       (MethodNamesIn(pythonData, n) # {} /\ showPythonOnly /\ searchTerm = <<>>)
         => n \in Range(filteredClassNames)

C5_Witness ==
  /\ ~showCommon /\ ~showTsOnly /\ showPythonOnly /\ searchTerm = <<>>
  /\ hideEmptyClasses
  /\ ~MapHas(tsData, Name_A) /\ MapHas(pythonData, Name_A)
  /\ pythonClassesMapGet(Name_A).methods # <<>>
  /\ Name_A \in Range(filteredClassNames)

\* The strings that differ from q in letter case only
RECURSIVE CaseVariants(_)
CaseVariants(q) ==
  IF q = <<>> THEN {<<>>}
  ELSE {<<c>> \o v : c \in {toLowerCaseChar(q[1]), toUpperCaseChar(q[1])},
                     v \in CaseVariants(Tail(q))}

\* C6: a class that passes the visibility and hide-empty conditions is shown
\* whenever the lower-cased search is a substring of its lower-cased name or
\* of the lower-cased name of one of its methods in either SDK, and every
\* letter-case variant of the search gives the same list.
C6_SearchCaseInsensitive ==
  /\ \A n \in UnionOfNames :
       ( /\ CondNotEmpty(n) /\ CondVisible(n)
         /\ \E w \in {n} \cup MethodNamesIn(tsData, n) \cup MethodNamesIn(pythonData, n) :
              IsSubstring(toLowerCase(searchTerm), toLowerCase(w)) )
       => n \in Range(filteredClassNames)
  /\ \A q \in CaseVariants(searchTerm) :
       filteredClassNamesFor(q) = filteredClassNames

\* An upper-case search finds a class by a lower-case method name.
C6_Witness ==
  /\ searchTerm = <<"B">>
  /\ showPythonOnly
  /\ ~MapHas(tsData, Name_A) /\ MapHas(pythonData, Name_A)
  /\ MethodNamesIn(pythonData, Name_A) = {Name_a_b}
  /\ Name_A \in Range(filteredClassNames)

-----------------------------------------------------------------------------
(* Ranking engine: the three leaderboards *)

\* slice(0, 15)
TopN == 15

\* x || y on line numbers
OrElse(x, y) == IF x = NoLine THEN y ELSE x

\* (m.endLine || m.line || 1) - (m.startLine || m.line || 1) + 1
LineLength(m) ==
  OrElse(OrElse(m.endLine, m.line), 1) - OrElse(OrElse(m.startLine, m.line), 1) + 1

\* The concatenation of a sequence of sequences
RECURSIVE Concat(_)
Concat(ss) == IF ss = <<>> THEN <<>> ELSE Head(ss) \o Concat(Tail(ss))

\* array.slice(0, n)
Take(q, n) == SubSeq(q, 1, IF Len(q) < n THEN Len(q) ELSE n)

\* The entries methodLengths gets from one SDK, class by class, method by
\* method
LengthEntries(classes, sdkName) ==
  LET Entry(c, m) == [method |-> m, className |-> c.name,
                      sdkName |-> sdkName, length |-> LineLength(m)]
      OfClass(c) ==
        LET ms == IF sdkName = "ts" THEN SelectSeq(c.methods, NotConstructor)
                  ELSE c.methods
        IN [j \in 1..Len(ms) |-> Entry(c, ms[j])]
  IN Concat([i \in 1..Len(classes) |-> OfClass(classes[i])])

\* The comparator of the longest-methods sort with its operands exchanged.
AscendingByLength(a, b) == a.length - b.length

\* (a, b) => b.length - a.length
DescendingByLength(a, b) == b.length - a.length

findLongestMethods ==
  Take(SortBy(LengthEntries(tsData, "ts") \o LengthEntries(pythonData, "python"),
              DescendingByLength),
       TopN)

\* name.toLowerCase().replace(/_/g, "")
StripUnderscores(s) ==
  LET NotUnderscore(c) == c # "_" IN SelectSeq(s, NotUnderscore)
\* The normalization without the lower-casing.
normalizedNameKeepingCase(n) == StripUnderscores(n)

normalizedName(n) == StripUnderscores(toLowerCase(n))

\* The (key, value) pairs that the lookup Map of one SDK is set to, in order:
\* tsMethods.set(`${cls.name}.${normalizedName}`, {method, className})
IndexEntries(classes, sdkName) ==
  LET OfClass(c) ==
        LET ms == IF sdkName = "ts" THEN SelectSeq(c.methods, NotConstructor)
                  ELSE c.methods
        IN [j \in 1..Len(ms) |->
              [key |-> <<c.name, normalizedName(ms[j].name)>>,
               method |-> ms[j], className |-> c.name]]
  IN Concat([i \in 1..Len(classes) |-> OfClass(classes[i])])

\* Map.has / Map.get after those sets: the last value set under a key
IndexHas(entries, key) == \E i \in 1..Len(entries) : entries[i].key = key
IndexGet(entries, key) ==
  entries[CHOOSE i \in 1..Len(entries) :
            /\ entries[i].key = key
            /\ \A j \in (i+1)..Len(entries) : entries[j].key # key]

\* The quotient num / den as the number JavaScript computes: den = 0 gives
\* Infinity here, since an entry is recorded only for num > den.
Ratio(num, den) == [num |-> num, den |-> den]

\* The comparator of the ratio sorts with its operands exchanged.
AscendingByRatio(a, b) ==
  LET x == b.ratio
      y == a.ratio
  IN IF x.den = 0 /\ y.den = 0 THEN 0
     ELSE IF y.den = 0 THEN 1
     ELSE IF x.den = 0 THEN -1
     ELSE LET cross == y.num * x.den - x.num * y.den
              sign == IF (x.den > 0) = (y.den > 0) THEN 1 ELSE -1
          IN cross * sign

\* The sign of b.ratio - a.ratio; Infinity - Infinity is NaN, which sort
\* takes as 0.
DescendingByRatio(a, b) ==
  LET x == a.ratio
      y == b.ratio
  IN IF x.den = 0 /\ y.den = 0 THEN 0
     ELSE IF y.den = 0 THEN 1
     ELSE IF x.den = 0 THEN -1
     ELSE LET cross == y.num * x.den - x.num * y.den
              sign == IF (x.den > 0) = (y.den > 0) THEN 1 ELSE -1
          IN cross * sign

RatioEntry(name, className, pythonLength, tsLength, ratio) ==
  [methodName |-> name, className |-> className,
   pythonLength |-> pythonLength, tsLength |-> tsLength, ratio |-> ratio]

\* The Python-exceeds-TypeScript test with >= for >.
PythonRatioEntriesOrEqual ==
  LET tsMethods == IndexEntries(tsData, "ts")
      OfMethod(c, m) ==
        LET pythonLength == LineLength(m)
            tsKey == <<c.name, normalizedName(m.name)>>
        IN IF ~IndexHas(tsMethods, tsKey) THEN <<>>
           ELSE LET tsLength == LineLength(IndexGet(tsMethods, tsKey).method)
                IN IF pythonLength >= tsLength
                   THEN <<RatioEntry(m.name, c.name, pythonLength, tsLength,
                                     Ratio(pythonLength, tsLength))>>
                   ELSE <<>>
      OfClass(c) == Concat([j \in 1..Len(c.methods) |-> OfMethod(c, c.methods[j])])
  IN Concat([i \in 1..Len(pythonData) |-> OfClass(pythonData[i])])

\* methodRatios of findSizeRatioMethods before it is sorted
PythonRatioEntries ==
  LET tsMethods == IndexEntries(tsData, "ts")
      OfMethod(c, m) ==
        LET pythonLength == LineLength(m)
            tsKey == <<c.name, normalizedName(m.name)>>
        IN IF ~IndexHas(tsMethods, tsKey) THEN <<>>
           ELSE LET tsLength == LineLength(IndexGet(tsMethods, tsKey).method)
                IN IF pythonLength > tsLength
                   THEN <<RatioEntry(m.name, c.name, pythonLength, tsLength,
                                     Ratio(pythonLength, tsLength))>>
                   ELSE <<>>
      OfClass(c) == Concat([j \in 1..Len(c.methods) |-> OfMethod(c, c.methods[j])])
  IN Concat([i \in 1..Len(pythonData) |-> OfClass(pythonData[i])])

findSizeRatioMethods == Take(SortBy(PythonRatioEntries, DescendingByRatio), TopN)

\* methodRatios of findTsSizeRatioMethods before it is sorted
TsRatioEntries ==
  LET pythonMethods == IndexEntries(pythonData, "python")
      OfMethod(c, m) ==
        LET tsLength == LineLength(m)
            pythonKey == <<c.name, normalizedName(m.name)>>
        IN IF ~IndexHas(pythonMethods, pythonKey) THEN <<>>
           ELSE LET pythonLength ==
                      LineLength(IndexGet(pythonMethods, pythonKey).method)
                IN IF tsLength > pythonLength
                   THEN <<RatioEntry(m.name, c.name, pythonLength, tsLength,
                                     Ratio(tsLength, pythonLength))>>
                   ELSE <<>>
      OfClass(c) ==
        LET ms == SelectSeq(c.methods, NotConstructor)
        IN Concat([j \in 1..Len(ms) |-> OfMethod(c, ms[j])])
  IN Concat([i \in 1..Len(tsData) |-> OfClass(tsData[i])])

findTsSizeRatioMethods == Take(SortBy(TsRatioEntries, DescendingByRatio), TopN)

-----------------------------------------------------------------------------
(* Leaderboard inputs: a class of both SDKs whose method names collide under
   the leaderboard normalization, with spans of several lengths and a span
   without end line; and a class with more methods than a leaderboard holds *)

MaxRankMethods == 2
MaxLongTs == 8
MaxLongPy == 9
MaxMult == 2

Name_ab == <<"a", "b">>

\* Line numbers of a method: one line, three lines, and a start line alone
Spans == {[s |-> 5, e |-> 5, l |-> 5], [s |-> 10, e |-> 12, l |-> 10],
          [s |-> 2, e |-> NoLine, l |-> NoLine]}

LongConstructor == Method(Constructor, 1, 40, 1)

RankMethods(names) ==
  {Method(n, sp.s, sp.e, sp.l) : n \in names, sp \in Spans} \cup {LongConstructor}

\* Method lists of at most MaxRankMethods methods with distinct names
RankLists(names) ==
  {q \in SeqsUpTo(RankMethods(names), MaxRankMethods) :
     \A i, j \in 1..Len(q) : i # j => q[i].name # q[j].name}

RankClasses(names) == {<<>>} \cup {<<Class(Name_A, q)>> : q \in RankLists(names)}

\* A class of Python alone, whose method must pair with no TypeScript method
OtherPythonClass == Class(Name_Bb, <<Method(Name_a_b, 10, 12, 10)>>)

RatioData ==
  {[ts |-> t, py |-> q \o x] :
     t \in RankClasses({Name_aB, Name_ab}),
     q \in RankClasses({Name_a_b, Name_ab}),
     x \in {<<>>, <<OtherPythonClass>>}}

\* The decimal digits of a number below 100
Num(i) == IF i < 10 THEN <<Digits[i + 1]>>
          ELSE <<Digits[(i \div 10) + 1], Digits[(i % 10) + 1]>>

\* nT TypeScript and nP Python methods, the k-th of them 1 + (k * mult) %
\* modulus lines long, behind an optional long constructor
LongData ==
  LET Span(k, mult, modulus) == 1 + ((k * mult) % modulus)
      TsMethod(k, mult, modulus) ==
        Method(<<"m">> \o Num(k), 10 * k, 10 * k + Span(k, mult, modulus) - 1, 10 * k)
      PyMethod(k, nT, mult, modulus) ==
        Method(<<"m", "_">> \o Num(k), 10 * k,
               10 * k + Span(nT + k, mult, modulus) - 1, NoLine)
  IN {[ts |-> <<Class(Name_A,
                     ctor \o [k \in 1..nT |-> TsMethod(k, mult, modulus)])>>,
       py |-> <<Class(Name_A, [k \in 1..nP |-> PyMethod(k, nT, mult, modulus)])>>] :
        nT \in 0..MaxLongTs, nP \in 0..MaxLongPy, mult \in 1..MaxMult,
        modulus \in {1, 3, 5}, ctor \in {<<>>, <<LongConstructor>>}}

\* n methods that pair one to one across the SDKs, each method of one side
\* one line long and its partner 2 + (k % modulus) lines long: more pairs
\* than a leaderboard holds, with equal and with different ratios
MaxPairs == 17
PairsData ==
  LET Short(name, k) == Method(name, 10 * k, 10 * k, 10 * k)
      Long(name, k, modulus) ==
        Method(name, 10 * k, 10 * k + 1 + (k % modulus), NoLine)
      TsName(k) == <<"m">> \o Num(k)
      PyName(k) == <<"m", "_">> \o Num(k)
  IN {[ts |-> <<Class(Name_A,
                     [k \in 1..n |-> IF tsLonger THEN Long(TsName(k), k, modulus)
                                     ELSE Short(TsName(k), k)])>>,
       py |-> <<Class(Name_A,
                     [k \in 1..n |-> IF tsLonger THEN Short(PyName(k), k)
                                     ELSE Long(PyName(k), k, modulus)])>>] :
        n \in 1..MaxPairs, modulus \in {1, 3}, tsLonger \in BOOLEAN}

InitRank ==
  /\ \E d \in RatioData \cup LongData \cup PairsData :
       tsData = d.ts /\ pythonData = d.py
  /\ variant = "enhanced"
  /\ ident = <<>>
  /\ cname = <<>>
  /\ origin = "ts"
  /\ InitView
  /\ InitSnippets
  /\ InitCards
  /\ InitScroll
  /\ NoCall

\* onClick={() => setShowLeaderboard(!showLeaderboard)}
ToggleLeaderboard ==
  /\ showLeaderboard' = ~showLeaderboard
  /\ UNCHANGED <<contextVars, scrollVars, dataVars, cardVars, snipVars, callVars, filterVars, showRatioLeaderboard,
                 showTsRatioLeaderboard>>

ToggleRatioLeaderboard ==
  /\ showRatioLeaderboard' = ~showRatioLeaderboard
  /\ UNCHANGED <<contextVars, scrollVars, dataVars, cardVars, snipVars, callVars, filterVars, showLeaderboard,
                 showTsRatioLeaderboard>>

ToggleTsRatioLeaderboard ==
  /\ showTsRatioLeaderboard' = ~showTsRatioLeaderboard
  /\ UNCHANGED <<contextVars, scrollVars, dataVars, cardVars, snipVars, callVars, filterVars, showLeaderboard,
                 showRatioLeaderboard>>

NextRank ==
  \/ ToggleLeaderboard
  \/ ToggleRatioLeaderboard
  \/ ToggleTsRatioLeaderboard

SpecRank == InitRank /\ [][NextRank]_vars

\* The methods of one SDK as (SDK, class name, method)
MethodsOf(classes, sdkName) ==
  UNION {{<<sdkName, classes[i].name, classes[i].methods[j]>> :
            j \in 1..Len(classes[i].methods)} : i \in 1..Len(classes)}

\* The methods a leaderboard may list: every method of both SDKs except the
\* TypeScript methods named constructor
Eligible ==
  {x \in MethodsOf(tsData, "ts") : x[3].name # Constructor}
    \cup MethodsOf(pythonData, "python")

\* Line length: endLine - startLine + 1, an absent endLine or startLine
\* replaced by line, and by 1 when line is absent too
Span(m) ==
  LET last == IF m.endLine # NoLine THEN m.endLine
              ELSE IF m.line # NoLine THEN m.line ELSE 1
      first == IF m.startLine # NoLine THEN m.startLine
               ELSE IF m.line # NoLine THEN m.line ELSE 1
  IN last - first + 1

\* C10: findLongestMethods returns at most 15 entries in non-increasing order
\* of line length, each a different method of either SDK other than a
\* TypeScript constructor; every method left out is at most as long as the
\* shortest one returned, and all are returned when there are fewer than 16.
C10_Longest ==
  showLeaderboard =>
    LET r == findLongestMethods
        listed == {<<r[i].sdkName, r[i].className, r[i].method>> : i \in 1..Len(r)}
    IN /\ Len(r) <= 15
       /\ \A i \in 1..Len(r) : r[i].length = Span(r[i].method)
       /\ \A i, j \in 1..Len(r) : i < j => r[i].length >= r[j].length
       /\ listed \subseteq Eligible
       /\ Cardinality(listed) = Len(r)
       /\ \A x \in Eligible \ listed :
            /\ Len(r) = 15
            /\ \A i \in 1..Len(r) : Span(x[3]) <= r[i].length
       /\ Cardinality(Eligible) < 16 => listed = Eligible

\* More than 15 eligible methods of several lengths behind a constructor
\* that is longer than all of them: the leaderboard is cut.
C10_Witness ==
  /\ showLeaderboard
  /\ Cardinality(Eligible) > 15
  /\ Len(findLongestMethods) = 15
  /\ \E i \in 1..Len(tsData) : Includes(tsData[i].methods, LongConstructor)
  /\ findLongestMethods[1].length > findLongestMethods[15].length
  /\ \E x \in Eligible : Span(x[3]) = findLongestMethods[15].length
       /\ \A i \in 1..15 : findLongestMethods[i].method # x[3]

\* Positions <<i, j>> of the methods of one SDK that the lookup Map holds
\* under the key of class name cn and normalized name nn at some moment
KeyPositions(classes, sdkName, cn, nn) ==
  UNION {{<<i, j>> : j \in {k \in 1..Len(classes[i].methods) :
                              /\ normalizedName(classes[i].methods[k].name) = nn
                              /\ sdkName = "ts" =>
                                   classes[i].methods[k].name # Constructor}} :
           i \in {k \in 1..Len(classes) : classes[k].name = cn}}

\* The method the Map ends up with: the last one in the order of the data
Indexed(classes, sdkName, cn, nn) ==
  LET P == KeyPositions(classes, sdkName, cn, nn)
      last == CHOOSE x \in P :
                \A y \in P : y[1] < x[1] \/ (y[1] = x[1] /\ y[2] <= x[2])
  IN classes[last[1]].methods[last[2]]

\* The entry that records Python method p against TypeScript method t, and
\* TypeScript method t against Python method p
PythonExceeds(cn, p, t) ==
  RatioEntry(p.name, cn, Span(p), Span(t), Ratio(Span(p), Span(t)))
TsExceeds(cn, p, t) ==
  RatioEntry(t.name, cn, Span(p), Span(t), Ratio(Span(t), Span(p)))

\* Pairs of a Python method and a TypeScript method other than a constructor,
\* in classes of one name, whose normalized names are equal
MatchingPairs ==
  {x \in MethodsOf(pythonData, "python") \X MethodsOf(tsData, "ts") :
     /\ x[1][2] = x[2][2]
     /\ x[2][3].name # Constructor
     /\ normalizedName(x[1][3].name) = normalizedName(x[2][3].name)}

BothRatioBoardsShown == showRatioLeaderboard /\ showTsRatioLeaderboard

\* C9 as claimed: every pair of a Python and a TypeScript method of one class
\* with matching normalized names is recorded for the Python-exceeds-
\* TypeScript leaderboard iff the Python method is longer, and for the
\* TypeScript-exceeds-Python leaderboard iff the TypeScript method is longer.
C9_EveryMatchingPair ==
  BothRatioBoardsShown =>
    \A x \in MatchingPairs :
      LET cn == x[1][2]
          p == x[1][3]
          t == x[2][3]
      IN /\ PythonExceeds(cn, p, t) \in Range(PythonRatioEntries)
              <=> Span(p) > Span(t)
         /\ TsExceeds(cn, p, t) \in Range(TsRatioEntries)
              <=> Span(t) > Span(p)

\* C9, amended: a Python method is compared with one TypeScript method only,
\* the last method other than a constructor that the class of the same name
\* lists under the same normalized name, and is recorded against it, with
\* ratio pythonLength / tsLength, iff it is longer; likewise each TypeScript
\* method against the last Python method of that normalized name.  Nothing
\* else is recorded, no pair is in both leaderboards, a pair of equal lengths
\* is in neither, and a leaderboard lists recorded entries only.
C9_IndexedPair ==
  BothRatioBoardsShown =>
    LET py == Range(PythonRatioEntries)
        ts == Range(TsRatioEntries)
        PyFound(x) ==
          KeyPositions(tsData, "ts", x[2], normalizedName(x[3].name)) # {}
        PyPartner(x) == Indexed(tsData, "ts", x[2], normalizedName(x[3].name))
        TsFound(x) ==
          KeyPositions(pythonData, "python", x[2], normalizedName(x[3].name)) # {}
        TsPartner(x) ==
          Indexed(pythonData, "python", x[2], normalizedName(x[3].name))
        tsSide == {x \in MethodsOf(tsData, "ts") : x[3].name # Constructor}
    IN /\ \A x \in MethodsOf(pythonData, "python") :
            PyFound(x) =>
              (PythonExceeds(x[2], x[3], PyPartner(x)) \in py
                 <=> Span(x[3]) > Span(PyPartner(x)))
       /\ py = {PythonExceeds(x[2], x[3], PyPartner(x)) :
                  x \in {y \in MethodsOf(pythonData, "python") :
                           PyFound(y) /\ Span(y[3]) > Span(PyPartner(y))}}
       /\ \A x \in tsSide :
            TsFound(x) =>
              (TsExceeds(x[2], TsPartner(x), x[3]) \in ts
                 <=> Span(x[3]) > Span(TsPartner(x)))
       /\ ts = {TsExceeds(x[2], TsPartner(x), x[3]) :
                  x \in {y \in tsSide :
                           TsFound(y) /\ Span(y[3]) > Span(TsPartner(y))}}
       /\ \A x \in MatchingPairs :
            LET cn == x[1][2]
                p == x[1][3]
                t == x[2][3]
            IN /\ ~(PythonExceeds(cn, p, t) \in py /\ TsExceeds(cn, p, t) \in ts)
               /\ Span(p) = Span(t) =>
                    PythonExceeds(cn, p, t) \notin py /\ TsExceeds(cn, p, t) \notin ts
       /\ Range(findSizeRatioMethods) \subseteq py
       /\ Range(findTsSizeRatioMethods) \subseteq ts

\* A Python method of three lines whose normalized name two TypeScript
\* methods share: it is recorded against the later one of one line, with
\* ratio 3 / 1, and no TypeScript entry is recorded for the class.
C9_Witness ==
  /\ BothRatioBoardsShown
  /\ tsData = <<Class(Name_A, <<Method(Name_aB, 10, 12, 10), Method(Name_ab, 5, 5, 5)>>)>>
  /\ pythonData = <<Class(Name_A, <<Method(Name_a_b, 10, 12, 10)>>)>>
  /\ findSizeRatioMethods = <<RatioEntry(Name_a_b, Name_A, 3, 1, Ratio(3, 1))>>
  /\ findTsSizeRatioMethods = <<>>

-----------------------------------------------------------------------------
(* Snippet fetcher: expanding and collapsing snippets, and the fetches *)

\* Bounds: fetches of one key awaiting a response at a time, the values at
\* which the two history counters stop counting, and the lines of a remote file
MaxInFlight == 2
MaxFetches == 2
MaxExpansions == 2
FileLineCount == 4
LongFileLineCount == 16
ContextLines == 5

\* content.split("\n") of the file of a class: the file of class Bb is the
\* long one, every other file the short one; the i-th line of a file is i
FileLinesOf(className) ==
  [i \in 1..(IF className = Name_Bb THEN LongFileLineCount ELSE FileLineCount) |-> i]

\* `${sdkName}-${className}-${method.name}` and `${sdkName}-${className}-class`
SnippetKey(sdkName, className, name) ==
  <<sdkName, "-">> \o className \o <<"-">> \o name
ClassSuffix == <<"c", "l", "a", "s", "s">>

\* The arguments of fetchCodeSnippet for the snippet of a method:
\* method.startLine || method.line || 1, method.endLine || method.line || 1
MethodRequest(sdkName, className, m) ==
  [key |-> SnippetKey(sdkName, className, m.name),
   startLine |-> OrElse(OrElse(m.startLine, m.line), 1),
   endLine |-> OrElse(OrElse(m.endLine, m.line), 1),
   sdkName |-> sdkName,
   lines |-> FileLinesOf(className)]

\* ... and for the snippet of a class card of the simple variant; the classes
\* of the model carry no line numbers: sdkClass.startLine || sdkClass.line || 1
ClassRequest(sdkName, className) ==
  [key |-> SnippetKey(sdkName, className, ClassSuffix),
   startLine |-> 1, endLine |-> 1, sdkName |-> sdkName,
   lines |-> FileLinesOf(className)]

\* The calls of fetchCodeSnippet the component can make, by key
AllRequests ==
  {MethodRequest(x[1], x[2], x[3]) :
     x \in MethodsOf(tsData, "ts") \cup MethodsOf(pythonData, "python")}
  \cup {ClassRequest("ts", n) : n \in NamesIn(tsData)}
  \cup {ClassRequest("python", n) : n \in NamesIn(pythonData)}
AllKeys == {r.key : r \in AllRequests}
RequestOf(key) == CHOOSE r \in AllRequests : r.key = key

\* Counters per key: one more for each key of a set, up to a value at which
\* a history counter stops; one less for a key
AddEach(f, keys, stop) ==
  [k \in DOMAIN f \cup keys |->
     IF k \in keys /\ Count(f, k) < stop THEN Count(f, k) + 1 ELSE Count(f, k)]
SubOne(f, key) ==
  [k \in {x \in DOMAIN f : x # key \/ f[x] > 1} |->
     IF k = key THEN f[k] - 1 ELSE f[k]]

\* A cache entry cut from index startLine instead of startLine - 1.
SnippetEntryFromStartLine(startLine, endLine, sdkName, lines) ==
  LET snippetStart == IF startLine > 0 THEN startLine ELSE 0
      snippetEnd == IF Len(lines) < endLine THEN Len(lines) ELSE endLine
  IN [content |-> [i \in 1..(snippetEnd - snippetStart) |-> lines[snippetStart + i]],
      line |-> startLine,
      language |-> IF sdkName = "ts" THEN "typescript" ELSE "python",
      fullContent |-> IF variant = "enhanced" THEN lines ELSE <<>>,
      startLine |-> IF variant = "enhanced" THEN snippetStart + 1 ELSE NoLine,
      endLine |-> IF variant = "enhanced" THEN snippetEnd ELSE NoLine]

\* The cache entry a successful fetch stores: lines.slice(snippetStart,
\* snippetEnd) of the file's lines; the enhanced variant also keeps the whole
\* file and the resolved bounds, the simple one has no such fields
SnippetEntry(startLine, endLine, sdkName, lines) ==
  LET snippetStart == IF startLine - 1 > 0 THEN startLine - 1 ELSE 0
      snippetEnd == IF Len(lines) < endLine THEN Len(lines) ELSE endLine
  IN [content |-> [i \in 1..(snippetEnd - snippetStart) |-> lines[snippetStart + i]],
      line |-> startLine,
      language |-> IF sdkName = "ts" THEN "typescript" ELSE "python",
      fullContent |-> IF variant = "enhanced" THEN lines ELSE <<>>,
      startLine |-> IF variant = "enhanced" THEN snippetStart + 1 ELSE NoLine,
      endLine |-> IF variant = "enhanced" THEN snippetEnd ELSE NoLine]

\* A - B or B - A of a set and an element: the toggle of the three Set states
Flip(S, x) == IF x \in S THEN S \ {x} ELSE S \cup {x}

\* new Map(prev).set(key, value)
MapSet(f, key, value) ==
  [k \in DOMAIN f \cup {key} |-> IF k = key THEN value ELSE f[k]]

\* Array.prototype.find: the index of the first element that matches, or 0
FindIndex(q, Test(_)) ==
  IF \E i \in 1..Len(q) : Test(q[i])
  THEN CHOOSE i \in 1..Len(q) : Test(q[i]) /\ \A j \in 1..(i-1) : ~Test(q[j])
  ELSE 0

\* The keys a toggle of key fetches when every expansion fetches, cached or
\* not.
KeysToFetchAlways(key, otherKey, isExpanding, expandOther) ==
  (IF isExpanding THEN {key} ELSE {})
    \cup (IF expandOther THEN {otherKey} ELSE {})

\* if (!codeSnippets.has(key)) fetchCodeSnippet(...), for the key and for
\* the key of the counterpart
KeysToFetch(key, otherKey, isExpanding, expandOther) ==
  (IF isExpanding /\ key \notin DOMAIN codeSnippets THEN {key} ELSE {})
    \cup (IF expandOther /\ otherKey \notin DOMAIN codeSnippets
          THEN {otherKey} ELSE {})

\* toggleCodeSnippet; the synchronous part of each fetchCodeSnippet it calls
\* (the key joins loadingSnippets) belongs to the same step.  The simple
\* variant has no counterpart logic; a class snippet has no method name.
toggleCodeSnippet(key, sdkName, className, methodName) ==
  LET isExpanding == key \notin expandedCodeSnippets
      otherSdkName == IF sdkName = "ts" THEN "python" ELSE "ts"
      otherClass == IF otherSdkName = "ts" THEN tsClassesMapGet(className)
                    ELSE pythonClassesMapGet(className)
      normalizedMethodName ==
        IF otherSdkName = "python" THEN toCamelCase(methodName) ELSE methodName
      Matches(m) ==
        IF otherSdkName = "python" THEN toCamelCase(m.name) = normalizedMethodName
        ELSE m.name = normalizedMethodName
      found == IF variant = "enhanced" /\ otherClass # UndefinedClass
               THEN FindIndex(otherClass.methods, Matches) ELSE 0
      otherKey == IF found = 0 THEN key
                  ELSE SnippetKey(otherSdkName, className,
                                  otherClass.methods[found].name)
      expandOther ==
        isExpanding /\ found # 0 /\ otherKey \notin expandedCodeSnippets \cup {key}
      newExpanded ==
        IF isExpanding
        THEN expandedCodeSnippets \cup {key}
               \cup (IF expandOther THEN {otherKey} ELSE {})
        ELSE expandedCodeSnippets \ {key, otherKey}
      toFetch == KeysToFetch(key, otherKey, isExpanding, expandOther)
  IN /\ \A k \in toFetch : Count(inFlight, k) < MaxInFlight
     /\ expandedCodeSnippets' = newExpanded
     /\ loadingSnippets' = loadingSnippets \cup toFetch
     /\ inFlight' = AddEach(inFlight, toFetch, MaxInFlight)
     /\ fetches' = AddEach(fetches, toFetch, MaxFetches)
     /\ expansions' =
          AddEach(expansions, newExpanded \ expandedCodeSnippets, MaxExpansions)
     /\ UNCHANGED <<contextVars, scrollVars, dataVars, cardVars, callVars, filterVars, boardVars, codeSnippets>>

\* The snippet button of a method row.  A row exists for every method of a
\* card except a TypeScript constructor; the filter flags and the expanded
\* cards that make the row visible change independently of the snippet state.
ClickMethodSnippet ==
  \E x \in MethodsOf(tsData, "ts") \cup MethodsOf(pythonData, "python") :
    /\ x[1] = "ts" => x[3].name # Constructor
    /\ toggleCodeSnippet(SnippetKey(x[1], x[2], x[3].name), x[1], x[2], x[3].name)

\* The snippet button of a class card (simple variant)
ClickClassSnippet ==
  /\ variant = "simple"
  /\ \E sdkName \in {"ts", "python"} :
       \E n \in NamesIn(IF sdkName = "ts" THEN tsData ELSE pythonData) :
         toggleCodeSnippet(SnippetKey(sdkName, n, ClassSuffix), sdkName, n, ClassSuffix)

\* A response that is written to the cache only while its key is expanded.
FetchSucceedsIfExpanded ==
  \E key \in DOMAIN inFlight :
    LET r == RequestOf(key)
    IN /\ codeSnippets' =
            (IF key \in expandedCodeSnippets
             THEN MapSet(codeSnippets, key,
                         SnippetEntry(r.startLine, r.endLine, r.sdkName, r.lines))
             ELSE codeSnippets)
       /\ loadingSnippets' = loadingSnippets \ {key}
       /\ inFlight' = SubOne(inFlight, key)
       /\ UNCHANGED <<contextVars, scrollVars, dataVars, cardVars, callVars, filterVars, boardVars,
                      expandedCodeSnippets, fetches, expansions>>

\* fetchCodeSnippet after its awaits, the response being ok and decodable:
\* setCodeSnippets, then the finally block
FetchSucceeds ==
  \E key \in DOMAIN inFlight :
    LET r == RequestOf(key)
    IN /\ codeSnippets' =
            MapSet(codeSnippets, key, SnippetEntry(r.startLine, r.endLine, r.sdkName, r.lines))
       /\ loadingSnippets' = loadingSnippets \ {key}
       /\ inFlight' = SubOne(inFlight, key)
       /\ UNCHANGED <<contextVars, scrollVars, dataVars, cardVars, callVars, filterVars, boardVars,
                      expandedCodeSnippets, fetches, expansions>>

\* A failed fetch that also drops the cache entry of its key.
FetchFailsEvicting ==
  \E key \in DOMAIN inFlight :
    /\ codeSnippets' = [k \in DOMAIN codeSnippets \ {key} |-> codeSnippets[k]]
    /\ loadingSnippets' = loadingSnippets \ {key}
    /\ inFlight' = SubOne(inFlight, key)
    /\ UNCHANGED <<contextVars, scrollVars, dataVars, cardVars, callVars, filterVars, boardVars,
                   expandedCodeSnippets, fetches, expansions>>

\* A failed fetch whose finally block leaves the key in loadingSnippets.
FetchFailsStillLoading ==
  \E key \in DOMAIN inFlight :
    /\ inFlight' = SubOne(inFlight, key)
    /\ UNCHANGED <<contextVars, scrollVars, dataVars, cardVars, callVars, filterVars, boardVars, loadingSnippets,
                   expandedCodeSnippets, codeSnippets, fetches, expansions>>

\* fetchCodeSnippet after a response that is not ok, or an exception: the
\* catch block logs, then the finally block
FetchFails ==
  \E key \in DOMAIN inFlight :
    /\ loadingSnippets' = loadingSnippets \ {key}
    /\ inFlight' = SubOne(inFlight, key)
    /\ UNCHANGED <<contextVars, scrollVars, dataVars, cardVars, callVars, filterVars, boardVars,
                   expandedCodeSnippets, codeSnippets, fetches, expansions>>

\* toggleSnippetExpansion
toggleSnippetExpansion(key) ==
  /\ expandedSnippets' = Flip(expandedSnippets, key)
  /\ UNCHANGED <<dataVars, cardVars, callVars, filterVars, boardVars, snipVars,
                 scrollVars>>

\* The "Show more lines" / "Show fewer lines" button of a method row of the
\* enhanced variant, rendered under a snippet that is expanded, not loading
\* and cached
ClickShowMoreLines ==
  /\ variant = "enhanced"
  /\ \E x \in MethodsOf(tsData, "ts") \cup MethodsOf(pythonData, "python") :
       LET key == SnippetKey(x[1], x[2], x[3].name)
       IN /\ x[1] = "ts" => x[3].name # Constructor
          /\ key \in expandedCodeSnippets
          /\ key \notin loadingSnippets
          /\ key \in DOMAIN codeSnippets
          /\ toggleSnippetExpansion(key)

\* The text shown for a key with one line less of context before the snippet.
getExpandedSnippetContentShort(key) ==
  IF key \notin DOMAIN codeSnippets THEN <<>>
  ELSE
    LET snippet == codeSnippets[key]
        lines == snippet.fullContent
        isExpanded == key \in expandedSnippets
        from == OrElse(snippet.startLine, 1) - ContextLines
        to == OrElse(snippet.endLine, 1) + ContextLines
        startLine == IF from > 0 THEN from ELSE 0
        endLine == IF Len(lines) < to THEN Len(lines) ELSE to
    IN IF snippet.fullContent = <<>> THEN snippet.content
       ELSE IF isExpanded
       THEN [i \in 1..(endLine - startLine) |-> lines[startLine + i]]
       ELSE snippet.content

\* getExpandedSnippetContent: the text shown for a key, as a list of lines.
\* An empty list stands for a string that is empty or absent.
getExpandedSnippetContent(key) ==
  IF key \notin DOMAIN codeSnippets THEN <<>>
  ELSE
    LET snippet == codeSnippets[key]
        lines == snippet.fullContent
        isExpanded == key \in expandedSnippets
        from == OrElse(snippet.startLine, 1) - (ContextLines + 1)
        to == OrElse(snippet.endLine, 1) + ContextLines
        startLine == IF from > 0 THEN from ELSE 0
        endLine == IF Len(lines) < to THEN Len(lines) ELSE to
    IN IF snippet.fullContent = <<>> THEN snippet.content
       ELSE IF isExpanded
       THEN [i \in 1..(endLine - startLine) |-> lines[startLine + i]]
       ELSE snippet.content

\* Inputs: a class whose methods pair across the SDKs by camel-casing or by
\* equal names, behind a constructor; a class of TypeScript alone whose file
\* is long and whose method lies in the middle of it; for the simple variant
\* a class of TypeScript alone with its class snippet
SnippetData ==
  {[variant |-> "enhanced",
    ts |-> <<Class(Name_A, <<LongConstructor, Method(Name_aB, 2, 3, 2)>>)>>,
    py |-> <<Class(Name_A, <<Method(Name_a_b, 3, 6, 3)>>)>>],
   [variant |-> "enhanced",
    ts |-> <<Class(Name_A, <<Method(Name_ab, 2, 3, 2)>>)>>,
    py |-> <<Class(Name_A, <<Method(Name_ab, NoLine, NoLine, NoLine)>>)>>],
   [variant |-> "enhanced",
    ts |-> <<Class(Name_Bb, <<Method(Name_b, 8, 9, 8)>>)>>,
    py |-> <<>>],
   [variant |-> "simple",
    ts |-> <<Class(Name_A, <<Method(Name_aB, 2, 3, 2)>>)>>,
    py |-> <<>>]}

Init ==
  /\ \E d \in SnippetData :
       tsData = d.ts /\ pythonData = d.py /\ variant = d.variant
  /\ ident = <<>>
  /\ cname = <<>>
  /\ origin = "ts"
  /\ InitView
  /\ InitSnippets
  /\ InitCards
  /\ InitScroll
  /\ NoCall

Next ==
  \/ ClickMethodSnippet
  \/ ClickClassSnippet
  \/ FetchSucceeds
  \/ FetchFails
  \/ ClickShowMoreLines

Spec == Init /\ [][Next]_vars

\* C1 as stated: for any snippet key, expanding it twice, at any timing
\* relative to the first response, issues exactly one remote fetch in total.
C1_OneFetchForTwoExpansions ==
  \A k \in AllKeys : Count(expansions, k) >= 2 => Count(fetches, k) = 1

\* C1, amended: for any snippet key, an expansion made while the cache holds
\* an entry for the key is served from the cache and starts no new fetch, so
\* no fetch of the key is ever issued after one has succeeded; an expansion
\* made while the cache holds no entry for the key (the first response is
\* still pending, or the fetch has failed) starts a new fetch.
C1_CachedExpansionStartsNoFetch ==
  [][\A k \in AllKeys :
       /\ k \in DOMAIN codeSnippets => Count(fetches', k) = Count(fetches, k)
       /\ (/\ k \notin DOMAIN codeSnippets
           /\ k \notin expandedCodeSnippets
           /\ k \in expandedCodeSnippets')
          => Count(fetches', k) =
               (IF Count(fetches, k) < MaxFetches
                THEN Count(fetches, k) + 1 ELSE MaxFetches)]_vars

\* A key expanded a second time after its first fetch succeeded: two
\* expansions, one fetch, nothing in flight
C1_Witness ==
  \E k \in AllKeys :
    /\ k \in DOMAIN codeSnippets
    /\ k \in expandedCodeSnippets
    /\ Count(expansions, k) >= 2
    /\ Count(fetches, k) = 1
    /\ Count(inFlight, k) = 0

\* C3 as stated, for the hide-empty method count: a TypeScript method named
\* 'constructor' does not contribute to it, so with hide-empty on every class
\* shown has a TypeScript method other than the constructor or a Python method.
C3_ConstructorNotCounted ==
  hideEmptyClasses =>
    \A i \in 1..Len(filteredClassNames) :
      \/ \E m \in MethodNamesIn(tsData, filteredClassNames[i]) : m # Constructor
      \/ MethodNamesIn(pythonData, filteredClassNames[i]) # {}

-----------------------------------------------------------------------------
(* The ratio leaderboards as lists *)

\* a >= b for two ratios, a zero denominator standing for Infinity
RatioAtLeast(a, b) ==
  IF a.den = 0 THEN TRUE
  ELSE IF b.den = 0 THEN FALSE
  ELSE IF (a.den > 0) = (b.den > 0) THEN a.num * b.den >= b.num * a.den
  ELSE a.num * b.den <= b.num * a.den

\* A leaderboard r lists the entries of the methods in a set, one entry per
\* method, in non-increasing order of ratio, cut after 15
ListsTop15(r, methods, EntryOf(_)) ==
  LET wanted == {EntryOf(x) : x \in methods}
      Times(e) == Cardinality({i \in 1..Len(r) : r[i] = e})
      Methods(e) == Cardinality({x \in methods : EntryOf(x) = e})
  IN /\ Len(r) = (IF Cardinality(methods) < 15 THEN Cardinality(methods) ELSE 15)
     /\ \A i \in 1..Len(r) : r[i] \in wanted
     /\ \A e \in wanted : Times(e) <= Methods(e)
     /\ \A i, j \in 1..Len(r) : i < j => RatioAtLeast(r[i].ratio, r[j].ratio)
     /\ \A e \in wanted :
          Times(e) < Methods(e) =>
            \A i \in 1..Len(r) : RatioAtLeast(r[i].ratio, e.ratio)

\* C11 as stated: findSizeRatioMethods holds one entry for each Python method
\* for which the same class has some TypeScript method of the same normalized
\* name that is strictly shorter, sorted by ratio and cut after 15, and
\* findTsSizeRatioMethods the same with the SDKs exchanged.
C11_EveryLongerMethod ==
  BothRatioBoardsShown =>
    LET pyLonger ==
          {x \in MethodsOf(pythonData, "python") :
             \E p \in MatchingPairs : p[1] = x /\ Span(x[3]) > Span(p[2][3])}
        tsLonger ==
          {y \in MethodsOf(tsData, "ts") :
             \E p \in MatchingPairs : p[2] = y /\ Span(y[3]) > Span(p[1][3])}
    IN /\ Len(findSizeRatioMethods) =
            (IF Cardinality(pyLonger) < 15 THEN Cardinality(pyLonger) ELSE 15)
       /\ Len(findTsSizeRatioMethods) =
            (IF Cardinality(tsLonger) < 15 THEN Cardinality(tsLonger) ELSE 15)

\* C11, amended: findSizeRatioMethods holds one entry for each Python method
\* that is strictly longer than the one TypeScript method it is looked up
\* against (the last method other than a constructor that the class of the
\* same name lists under the same normalized name), sorted by ratio in
\* non-increasing order and cut after the first 15; findTsSizeRatioMethods is
\* the same with the SDKs exchanged.
C11_RatioBoards ==
  BothRatioBoardsShown =>
    LET PyPartner(x) == Indexed(tsData, "ts", x[2], normalizedName(x[3].name))
        TsPartner(x) ==
          Indexed(pythonData, "python", x[2], normalizedName(x[3].name))
        pyLonger ==
          {x \in MethodsOf(pythonData, "python") :
             /\ KeyPositions(tsData, "ts", x[2], normalizedName(x[3].name)) # {}
             /\ Span(x[3]) > Span(PyPartner(x))}
        tsLonger ==
          {x \in MethodsOf(tsData, "ts") :
             /\ x[3].name # Constructor
             /\ KeyPositions(pythonData, "python", x[2],
                             normalizedName(x[3].name)) # {}
             /\ Span(x[3]) > Span(TsPartner(x))}
        PyEntry(x) == PythonExceeds(x[2], x[3], PyPartner(x))
        TsEntry(x) == TsExceeds(x[2], TsPartner(x), x[3])
    IN /\ ListsTop15(findSizeRatioMethods, pyLonger, PyEntry)
       /\ ListsTop15(findTsSizeRatioMethods, tsLonger, TsEntry)

\* More than 15 Python methods longer than their TypeScript partners, with
\* ratios 2, 3 and 4: the leaderboard is cut after 15 entries, the first of
\* ratio 4 and the last of a smaller ratio.
C11_Witness ==
  /\ BothRatioBoardsShown
  /\ Len(PythonRatioEntries) > 15
  /\ Len(findSizeRatioMethods) = 15
  /\ findSizeRatioMethods[1].ratio = Ratio(4, 1)
  /\ findSizeRatioMethods[15].ratio # Ratio(4, 1)
  /\ findTsSizeRatioMethods = <<>>

\* C12: when a fetch for key k fails, the failure stays inside
\* fetchCodeSnippet: the snippet cache and the expanded set are unchanged, no
\* entry for k is created, and k leaves the loading set; a later expansion
\* of k, collapsed and with every earlier fetch failed, issues a new fetch.
C12_FailedFetch ==
  [][\A k \in AllKeys :
       /\ (Count(inFlight', k) < Count(inFlight, k) /\ k \notin DOMAIN codeSnippets')
          => /\ codeSnippets' = codeSnippets
             /\ k \notin loadingSnippets'
             /\ expandedCodeSnippets' = expandedCodeSnippets
       /\ (/\ Count(fetches, k) >= 1
           /\ Count(inFlight, k) = 0
           /\ k \notin DOMAIN codeSnippets
           /\ k \notin expandedCodeSnippets
           /\ k \in expandedCodeSnippets')
          => Count(inFlight', k) = 1 /\ k \in loadingSnippets']_vars

\* A key without cache entry, fetched twice with one fetch ended: that fetch
\* failed, and the key, expanded again, is being fetched anew
C12_Witness ==
  \E k \in AllKeys :
    /\ k \notin DOMAIN codeSnippets
    /\ Count(fetches, k) = 2
    /\ Count(expansions, k) = 2
    /\ Count(inFlight, k) = 1
    /\ k \in loadingSnippets
    /\ k \in expandedCodeSnippets

-----------------------------------------------------------------------------
(* Class cards: expanding a card, its method list and the two toggles *)

\* `${sdkName}-${className}`
ClassKey(sdkName, className) == <<sdkName, "-">> \o className

\* (a, b) => a.name.localeCompare(b.name)
ByName(a, b) == localeCompare(a.name, b.name)

\* The comparator of sort-by-length with its operands exchanged.
ByLengthAscending(a, b) == LineLength(a) - LineLength(b)

\* (a, b) => lengthB - lengthA
ByLengthDescending(a, b) == LineLength(b) - LineLength(a)

\* The test of the forEach in getSortedMethods: the method's name, camel-cased
\* if sdkName is "python", is among the names of all methods of otherClass,
\* camel-cased if those are Python names.  No constructor is left out of
\* otherClass.methods here.
isSharedMethod(method, otherClass, sdkName) ==
  LET otherSdkName == IF sdkName = "ts" THEN "python" ELSE "ts"
      normalizedMethodName ==
        IF sdkName = "python" THEN toCamelCase(method.name) ELSE method.name
      otherMethodNames ==
        [i \in 1..Len(otherClass.methods) |->
           IF otherSdkName = "python" THEN toCamelCase(otherClass.methods[i].name)
           ELSE otherClass.methods[i].name]
  IN Includes(otherMethodNames, normalizedMethodName)

\* getSortedMethods, given the two toggle sets.  The simple variant sorts by
\* name only.  Where the code sorts sdkClass.methods itself (a Python class in
\* the simple variant, a Python class without TypeScript class in the
\* enhanced one) the result is also the new content of that array.
MethodList(sdkClass, otherClass, sdkName, hideSet, sortSet) ==
  LET methods == IF sdkName = "ts" THEN SelectSeq(sdkClass.methods, NotConstructor)
                 ELSE sdkClass.methods
      shouldHideCommon == ClassKey(sdkName, sdkClass.name) \in hideSet
      shouldSortByLength == ClassKey(sdkName, sdkClass.name) \in sortSet
      IsShared(m) == isSharedMethod(m, otherClass, sdkName)
      NotShared(m) == ~IsShared(m)
      sharedMethods == SelectSeq(methods, IsShared)
      nonSharedMethods == SelectSeq(methods, NotShared)
      filteredMethods == IF shouldHideCommon THEN nonSharedMethods
                         ELSE sharedMethods \o nonSharedMethods
  IN IF variant = "simple" THEN SortBy(methods, ByName)
     ELSE IF otherClass = UndefinedClass
     THEN (IF shouldSortByLength THEN SortBy(methods, ByLengthDescending)
           ELSE SortBy(methods, ByName))
     ELSE IF shouldSortByLength THEN SortBy(filteredMethods, ByLengthDescending)
     ELSE IF shouldHideCommon THEN SortBy(filteredMethods, ByName)
     ELSE SortBy(sharedMethods, ByName) \o SortBy(nonSharedMethods, ByName)

\* The class of the same name in the other SDK:
\* otherSdkName === "ts" ? tsClassesMap.get(name) : pythonClassesMap.get(name)
SortedMethods(sdkClass, sdkName, hideSet, sortSet) ==
  MethodList(sdkClass,
             IF sdkName = "ts" THEN pythonClassesMapGet(sdkClass.name)
             ELSE tsClassesMapGet(sdkClass.name),
             sdkName, hideSet, sortSet)

getSortedMethods(sdkClass, sdkName) ==
  SortedMethods(sdkClass, sdkName, hideCommonMethods, sortByLength)

\* filteredClassNames as a set, for given values of the three visibility flags
ShownWith(common, tsOnly, pythonOnly) ==
  {n \in Range(sortedClassNames) :
     /\ PassesHideEmpty(n)
     /\ LET tsClass == tsClassesMapGet(n) # UndefinedClass
            pythonClass == pythonClassesMapGet(n) # UndefinedClass
        IN \/ common /\ tsClass /\ pythonClass
           \/ tsOnly /\ tsClass /\ ~pythonClass
           \/ pythonOnly /\ ~tsClass /\ pythonClass
     /\ MatchesSearch(n, searchTerm)}
Shown == ShownWith(showCommon, showTsOnly, showPythonOnly)

\* pythonData after a render: renderClassCard calls getSortedMethods for every
\* class of filteredClassNames whose card is expanded, and getSortedMethods
\* sorts the methods array of a Python class in place unless it has filtered
\* or partitioned it first.  A TypeScript class is always filtered first.
Rendered(shown, expanded, sortSet) ==
  [i \in 1..Len(pythonData) |->
     LET c == pythonData[i]
         inMap == \A j \in (i+1)..Len(pythonData) : pythonData[j].name # c.name
         inPlace == /\ c.name \in shown
                    /\ c.name \in expanded
                    /\ inMap
                    /\ variant = "simple" \/ ~MapHas(tsData, c.name)
     IN IF inPlace
        THEN [c EXCEPT !.methods = SortedMethods(c, "python", {}, sortSet)]
        ELSE c]

\* The three visibility checkboxes, each followed by the render
CheckShowCommon ==
  /\ showCommon' = ~showCommon
  /\ pythonData' = Rendered(ShownWith(~showCommon, showTsOnly, showPythonOnly),
                            expandedClasses, sortByLength)
  /\ UNCHANGED <<contextVars, scrollVars, tsData, variant, callVars, boardVars, snipVars, cardVars,
                 showTsOnly, showPythonOnly, hideEmptyClasses, searchTerm>>

CheckShowTsOnly ==
  /\ showTsOnly' = ~showTsOnly
  /\ pythonData' = Rendered(ShownWith(showCommon, ~showTsOnly, showPythonOnly),
                            expandedClasses, sortByLength)
  /\ UNCHANGED <<contextVars, scrollVars, tsData, variant, callVars, boardVars, snipVars, cardVars,
                 showCommon, showPythonOnly, hideEmptyClasses, searchTerm>>

CheckShowPythonOnly ==
  /\ showPythonOnly' = ~showPythonOnly
  /\ pythonData' = Rendered(ShownWith(showCommon, showTsOnly, ~showPythonOnly),
                            expandedClasses, sortByLength)
  /\ UNCHANGED <<contextVars, scrollVars, tsData, variant, callVars, boardVars, snipVars, cardVars,
                 showCommon, showTsOnly, hideEmptyClasses, searchTerm>>

\* The Expand/Collapse button of a card that is shown, and the render
toggleClass ==
  \E className \in Shown :
    /\ expandedClasses' = Flip(expandedClasses, className)
    /\ pythonData' = Rendered(Shown, Flip(expandedClasses, className), sortByLength)
    /\ UNCHANGED <<contextVars, scrollVars, tsData, variant, callVars, filterVars, boardVars, snipVars,
                   hideCommonMethods, sortByLength>>

\* The cards that show their two toggle buttons: expanded cards of the
\* enhanced variant, one per SDK that has the class
ToggleButtons ==
  {x \in {"ts", "python"} \X (Shown \cap expandedClasses) :
     /\ variant = "enhanced"
     /\ MapHas(IF x[1] = "ts" THEN tsData ELSE pythonData, x[2])}

\* The Hide Common / Show Common button, and the render
toggleHideCommonMethods ==
  \E x \in ToggleButtons :
    /\ hideCommonMethods' = Flip(hideCommonMethods, ClassKey(x[1], x[2]))
    /\ pythonData' = Rendered(Shown, expandedClasses, sortByLength)
    /\ UNCHANGED <<contextVars, scrollVars, tsData, variant, callVars, filterVars, boardVars, snipVars,
                   expandedClasses, sortByLength>>

\* The Sort by Length / Sort A-Z button, and the render
toggleSortByLength ==
  \E x \in ToggleButtons :
    /\ sortByLength' = Flip(sortByLength, ClassKey(x[1], x[2]))
    /\ pythonData' = Rendered(Shown, expandedClasses,
                              Flip(sortByLength, ClassKey(x[1], x[2])))
    /\ UNCHANGED <<contextVars, scrollVars, tsData, variant, callVars, filterVars, boardVars, snipVars,
                   expandedClasses, hideCommonMethods>>

\* Inputs: method lists of at most MaxCardMethods methods with distinct
\* names, each name with its own length; a class of both SDKs, and a class of
\* one SDK alone
MaxCardMethods == 2
TsPool == {LongConstructor, Method(Name_aB, 5, 5, 5), Method(Name_b, 10, 12, 10)}
PyPool == {Method(Constructor, NoLine, NoLine, NoLine),
           Method(Name_a_b, 10, 12, 10), Method(Name_b, 7, NoLine, NoLine)}
CardLists(pool) ==
  {q \in SeqsUpTo(pool, MaxCardMethods) :
     \A i, j \in 1..Len(q) : i # j => q[i].name # q[j].name}
CardData ==
  {[ts |-> <<Class(Name_A, t)>>, py |-> <<Class(Name_A, q)>>] :
     t \in CardLists(TsPool), q \in CardLists(PyPool)}
  \cup {[ts |-> <<Class(Name_Bb, t)>>, py |-> <<>>] : t \in CardLists(TsPool)}
  \cup {[ts |-> <<>>, py |-> <<Class(Name_Bb, q)>>] : q \in CardLists(PyPool)}

InitCardsSpec ==
  /\ \E d \in CardData : tsData = d.ts /\ pythonData = d.py
  /\ variant \in {"simple", "enhanced"}
  /\ ident = <<>>
  /\ cname = <<>>
  /\ origin = "ts"
  /\ InitView
  /\ InitSnippets
  /\ InitCards
  /\ InitScroll
  /\ NoCall

NextCards ==
  \/ CheckShowCommon
  \/ CheckShowTsOnly
  \/ CheckShowPythonOnly
  \/ toggleClass
  \/ toggleHideCommonMethods
  \/ toggleSortByLength

SpecCards == InitCardsSpec /\ [][NextCards]_vars

\* C13 as stated: the two SDKData inputs are never mutated; no render and no
\* user action changes the order or the content of a method list of tsData
\* or pythonData.
C13_InputsNeverMutated ==
  [][tsData' = tsData /\ pythonData' = pythonData]_vars

-----------------------------------------------------------------------------
(* Snippets of matched methods *)

\* The snippet keys <<TypeScript key, Python key>> of the pairs of methods
\* that the Matcher reports as 'both' for each other: a TypeScript method
\* other than the constructor and a Python method of the class of the same
\* name whose camel-cased name is the TypeScript name
MatchedKeys ==
  {<<SnippetKey("ts", x[1][2], x[1][3].name), SnippetKey("python", x[2][2], x[2][3].name)>> :
     x \in {y \in MethodsOf(tsData, "ts") \X MethodsOf(pythonData, "python") :
              /\ y[1][2] = y[2][2]
              /\ y[1][3].name # Constructor
              /\ toCamelCase(y[2][3].name) = y[1][3].name
              /\ getMethodComparisonStatus(y[1][3].name, tsClassesMapGet(y[1][2]),
                                           pythonClassesMapGet(y[1][2]), "ts") = "both"
              /\ getMethodComparisonStatus(y[2][3].name, tsClassesMapGet(y[1][2]),
                                           pythonClassesMapGet(y[1][2]), "python") = "both"}}

\* C14 as stated: in the enhanced variant, expanding the snippet of a method
\* of status 'both' from either column while neither key is expanded leaves
\* the key and the key of its counterpart expanded, and starts a fetch for
\* each of the two keys that has no cache entry.
C14_ExpandingExpandsCounterpart ==
  [][variant = "enhanced" =>
       \A x \in MatchedKeys :
         (/\ x[1] \notin expandedCodeSnippets
          /\ x[2] \notin expandedCodeSnippets
          /\ x[1] \in expandedCodeSnippets' \/ x[2] \in expandedCodeSnippets')
         => /\ x[1] \in expandedCodeSnippets'
            /\ x[2] \in expandedCodeSnippets'
            /\ \A k \in {x[1], x[2]} \ DOMAIN codeSnippets :
                 Count(inFlight', k) = Count(inFlight, k) + 1]_vars

\* C15 as stated: in the enhanced variant, collapsing the snippet of a method
\* of status 'both' from either column removes the key and the key of its
\* counterpart from the expanded set.
C15_CollapsingCollapsesCounterpart ==
  [][variant = "enhanced" =>
       \A x \in MatchedKeys :
         (\E k \in {x[1], x[2]} :
            k \in expandedCodeSnippets /\ k \notin expandedCodeSnippets')
         => x[1] \notin expandedCodeSnippets' /\ x[2] \notin expandedCodeSnippets']_vars

-----------------------------------------------------------------------------
(* The method list of a card *)

\* The cards of classes that both SDKs have, as <<SDK, class of that SDK>>
CommonCards ==
  {<<"ts", tsClassesMapGet(n)>> : n \in NamesIn(tsData) \cap NamesIn(pythonData)}
    \cup {<<"python", pythonClassesMapGet(n)>> :
            n \in NamesIn(tsData) \cap NamesIn(pythonData)}

\* The methods a card lists at most: all of them, without the constructor on
\* the TypeScript side
Listable(sdkName, c) ==
  {m \in Range(c.methods) : sdkName = "ts" => m.name # Constructor}

\* A method is shared when its name, camel-cased if it is a Python name, is
\* a TypeScript method name other than constructor and the camel-cased name
\* of a Python method of the class of the same name
SharedMethod(sdkName, c, m) ==
  LET n == IF sdkName = "python" THEN toCamelCase(m.name) ELSE m.name
  IN /\ n \in TsNameSet(tsClassesMapGet(c.name))
     /\ n \in PythonCamelSet(pythonClassesMapGet(c.name))

\* C16 as stated: for a class with a counterpart (enhanced variant),
\* getSortedMethods returns exactly the non-shared methods when hide-shared
\* is active for the class and side; otherwise it returns every method (no
\* TypeScript constructor) with every shared method before every non-shared
\* one, whether or not sort-by-length is active.
C16_SharedFirst ==
  variant = "enhanced" =>
    \A x \in CommonCards :
      LET r == getSortedMethods(x[2], x[1])
          all == Listable(x[1], x[2])
          Shared(m) == SharedMethod(x[1], x[2], m)
      IN IF ClassKey(x[1], x[2].name) \in hideCommonMethods
         THEN /\ Range(r) = {m \in all : ~Shared(m)}
              /\ Len(r) = Cardinality(Range(r))
         ELSE /\ Range(r) = all
              /\ Len(r) = Cardinality(all)
              /\ \A i, j \in 1..Len(r) : (Shared(r[i]) /\ ~Shared(r[j])) => i < j

\* Every card of either SDK, as <<SDK, class of that SDK>>
AllCards ==
  {<<"ts", tsClassesMapGet(n)>> : n \in NamesIn(tsData)}
    \cup {<<"python", pythonClassesMapGet(n)>> : n \in NamesIn(pythonData)}

\* The list a card shows for the class of a name
CardList(sdkName, n) ==
  getSortedMethods(IF sdkName = "ts" THEN tsClassesMapGet(n)
                   ELSE pythonClassesMapGet(n), sdkName)

\* The same list in the next state
CardListNext(sdkName, n) ==
  MethodList(MapGet(IF sdkName = "ts" THEN tsData' ELSE pythonData', n),
             MapGet(IF sdkName = "ts" THEN pythonData' ELSE tsData', n),
             sdkName, hideCommonMethods', sortByLength')

\* The groups of a list: one group where the other SDK lacks the class or
\* the variant is the simple one; otherwise the methods whose name, camel-cased
\* if it is a Python name, is among the names of the other class (camel-cased
\* if they are Python names), and the other methods
SameGroup(sdkName, c, m1, m2) ==
  LET other == IF sdkName = "ts" THEN pythonClassesMapGet(c.name)
               ELSE tsClassesMapGet(c.name)
      Norm(name, sdk) == IF sdk = "python" THEN toCamelCase(name) ELSE name
      otherNames == {Norm(o.name, IF sdkName = "ts" THEN "python" ELSE "ts") :
                       o \in Range(other.methods)}
      InOther(m) == Norm(m.name, sdkName) \in otherNames
  IN variant = "simple" \/ other = UndefinedClass \/ (InOther(m1) <=> InOther(m2))

\* The keys `${sdkName}-${className}` whose membership differs in two sets
Changed(S, T) == (S \ T) \cup (T \ S)

C18_PartitionAgreesWithMatcher ==
  variant = "enhanced" =>
    \A x \in CommonCards :
      LET tsClass == tsClassesMapGet(x[2].name)
          pythonClass == pythonClassesMapGet(x[2].name)
          otherClass == IF x[1] = "ts" THEN pythonClass ELSE tsClass
          Both(m) == getMethodComparisonStatus(m.name, tsClass, pythonClass, x[1]) = "both"
      IN /\ \A m \in Listable(x[1], x[2]) :
              isSharedMethod(m, otherClass, x[1]) <=> Both(m)
         /\ ClassKey(x[1], x[2].name) \in hideCommonMethods
              => Range(getSortedMethods(x[2], x[1]))
                   = {m \in Listable(x[1], x[2]) : ~Both(m)}

-----------------------------------------------------------------------------
(* Class order of the enhanced variant *)

\* The TypeScript methods of the class of a name that are not constructors,
\* plus all its Python methods, counted by position
CombinedCount(n) ==
  LET t == tsClassesMapGet(n)
      q == pythonClassesMapGet(n)
  IN (IF t = UndefinedClass THEN 0
      ELSE Cardinality({i \in 1..Len(t.methods) : t.methods[i].name # Constructor}))
     + (IF q = UndefinedClass THEN 0 ELSE Len(q.methods))

\* The position of a name in a list without repetitions
PositionIn(s, n) == CHOOSE i \in 1..Len(s) : s[i] = n

\* C19: in the enhanced variant the class list holds every class name once,
\* a class of greater combined method count before one of smaller count and,
\* of two classes of equal count, the alphabetically first one first; the
\* filtered list holds no name twice and keeps the names it holds in the
\* order of the class list.  Both lists are computed from the input and the
\* filter settings alone.
C19_ClassOrder ==
  variant = "enhanced" =>
    LET s == sortedClassNames
        f == filteredClassNames
    IN /\ Range(s) = UnionOfNames
       /\ \A i, j \in 1..Len(s) :
            i < j => /\ s[i] # s[j]
                     /\ CombinedCount(s[i]) >= CombinedCount(s[j])
                     /\ CombinedCount(s[i]) = CombinedCount(s[j])
                          => localeCompare(s[i], s[j]) < 0
       /\ Range(f) \subseteq Range(s)
       /\ \A i, j \in 1..Len(f) :
            i < j => /\ f[i] # f[j]
                     /\ PositionIn(s, f[i]) < PositionIn(s, f[j])

\* Class Bb with one method listed before class A, whose only method is a
\* TypeScript constructor, and both kept by a filter that has been set to
\* show the classes of TypeScript alone and the empty ones
C19_Witness ==
  /\ variant = "enhanced"
  /\ showTsOnly /\ ~hideEmptyClasses
  /\ ~MapHas(pythonData, Name_A)
  /\ CombinedCount(Name_A) = 0
  /\ MapHas(tsData, Name_A)
  /\ tsClassesMapGet(Name_A).methods # <<>>
  /\ sortedClassNames = <<Name_Bb, Name_A>>
  /\ filteredClassNames = <<Name_Bb, Name_A>>

-----------------------------------------------------------------------------
(* The entry a successful fetch stores *)

Max(a, b) == IF a > b THEN a ELSE b
Min(a, b) == IF a < b THEN a ELSE b

\* The elements of a sequence with 0-based indices in [from, to)
Slice(q, from, to) == [i \in 1..(to - from) |-> q[from + i]]

\* C20: when a fetch for key k, called with (startLine, endLine, sdkName),
\* ends and the cache holds an entry for k, the entry holds the lines of the
\* file with 0-based indices in [max(0, startLine - 1), min(n, endLine)) and
\* the language "typescript" for sdkName "ts", "python" otherwise, and k is
\* not in the loading set; in the enhanced variant the entry also holds the
\* bounds max(0, startLine - 1) + 1 and min(n, endLine).
C20_SuccessfulFetch ==
  [][\A k \in AllKeys :
       (Count(inFlight', k) < Count(inFlight, k) /\ k \in DOMAIN codeSnippets')
       => LET r == RequestOf(k)
              e == codeSnippets'[k]
              from == Max(0, r.startLine - 1)
              to == Min(Len(r.lines), r.endLine)
          IN /\ e.content = Slice(r.lines, from, to)
             /\ e.language = (IF r.sdkName = "ts" THEN "typescript" ELSE "python")
             /\ k \notin loadingSnippets'
             /\ variant = "enhanced" => e.startLine = from + 1 /\ e.endLine = to]_vars

\* The snippet of the Python method a_b, lines 3 to 6 of a file that ends
\* before line 6, fetched and stored
C20_Witness ==
  LET k == SnippetKey("python", Name_A, Name_a_b)
  IN /\ variant = "enhanced"
     /\ k \in DOMAIN codeSnippets
     /\ k \notin loadingSnippets
     /\ Count(inFlight, k) = 0
     /\ RequestOf(k).endLine > FileLineCount
     /\ codeSnippets[k].content = <<3, 4>>
     /\ codeSnippets[k].language = "python"
     /\ codeSnippets[k].startLine = 3
     /\ codeSnippets[k].endLine = FileLineCount

-----------------------------------------------------------------------------
(* The snippet cache over time *)

\* C21: the snippet cache only grows: a key that has a cache entry has one
\* after every step, whether the step is a toggle that expands or collapses,
\* a successful fetch or a failed one.
C21_CacheOnlyGrows ==
  [][DOMAIN codeSnippets \subseteq DOMAIN codeSnippets']_vars

\* A cached key that has been collapsed again, while the fetch of another key
\* has failed: the entry is still there
C21_Witness ==
  \E k, j \in AllKeys :
    /\ k \in DOMAIN codeSnippets
    /\ k \notin expandedCodeSnippets
    /\ Count(expansions, k) >= 1
    /\ j # k
    /\ j \notin DOMAIN codeSnippets
    /\ Count(fetches, j) >= 1
    /\ Count(inFlight, j) = 0

SucceedsFor(k) ==
  /\ Next
  /\ Count(inFlight', k) < Count(inFlight, k)
  /\ k \in DOMAIN codeSnippets'

\* C23: a fetch in flight is never cancelled.  No toggle lowers the number
\* of fetches outstanding for a key; while a fetch of a key is outstanding,
\* whether the key is expanded or collapsed, the response can succeed and
\* leave a cache entry under the key; and the step that handles a response
\* leaves the expanded set as it is.
C23_NoCancellation ==
  /\ [][\A k \in AllKeys :
          /\ expandedCodeSnippets' # expandedCodeSnippets
               => Count(inFlight', k) >= Count(inFlight, k)
          /\ Count(inFlight', k) < Count(inFlight, k)
               => expandedCodeSnippets' = expandedCodeSnippets]_vars
  /\ [](\A k \in AllKeys : Count(inFlight, k) > 0 => ENABLED SucceedsFor(k))

\* A key expanded once and collapsed before its response has arrived: the
\* fetch is still outstanding and its response can still be stored
C23_Witness ==
  \E k \in AllKeys :
    /\ k \notin expandedCodeSnippets
    /\ k \notin DOMAIN codeSnippets
    /\ Count(expansions, k) = 1
    /\ Count(fetches, k) = 1
    /\ Count(inFlight, k) = 1
    /\ ENABLED SucceedsFor(k)

\* C26 as stated: a key is in the loading set exactly while at least one
\* fetch for it is outstanding; in particular, with two fetches of one key
\* in flight the key stays in the loading set until the last has completed.
C26_LoadingWhileOutstanding ==
  \A k \in AllKeys : k \in loadingSnippets <=> Count(inFlight, k) > 0

\* C29 as stated: in the enhanced variant, in every state reached by snippet
\* toggles from a state with nothing expanded, for every pair of methods the
\* Matcher matches, the key of the TypeScript method is expanded exactly when
\* the key of the Python method is.
C29_PairsExpandedTogether ==
  variant = "enhanced" =>
    \A p \in MatchedKeys :
      p[1] \in expandedCodeSnippets <=> p[2] \in expandedCodeSnippets

-----------------------------------------------------------------------------
(* Showing more lines of a snippet *)

\* A list occurs in another as a run of consecutive elements
OccursIn(part, whole) ==
  \E off \in 0..(Len(whole) - Len(part)) :
    \A i \in 1..Len(part) : whole[off + i] = part[i]

\* C24: in the enhanced variant a step that changes the set of keys shown
\* with more lines flips one cached key in it and changes nothing else: no
\* fetch is started and the cache is as before.  For a cached key in the set
\* the text shown is the fetched file from 5 lines before the stored snippet
\* window to 5 lines after it, clamped to the file, and the snippet occurs
\* in it; for a cached key not in the set (never toggled, or toggled again)
\* the text shown is the snippet.
C24_ShowMoreLines ==
  /\ [][expandedSnippets' # expandedSnippets
         => /\ variant = "enhanced"
            /\ \E k \in DOMAIN codeSnippets :
                 expandedSnippets' = Flip(expandedSnippets, k)
            /\ UNCHANGED <<dataVars, callVars, filterVars, boardVars, snipVars,
                           cardVars, scrollVars>>]_vars
  /\ [](variant = "enhanced" =>
          \A k \in DOMAIN codeSnippets :
            LET e == codeSnippets[k]
                file == RequestOf(k).lines
                shown == getExpandedSnippetContent(k)
            IN IF k \in expandedSnippets
               THEN /\ shown = Slice(file, Max(0, e.startLine - 1 - ContextLines),
                                      Min(Len(file), e.endLine + ContextLines))
                    /\ OccursIn(e.content, shown)
               ELSE shown = e.content)

\* The snippet of lines 8 to 9 of the long file, shown with lines 3 to 14
C24_Witness ==
  LET k == SnippetKey("ts", Name_Bb, Name_b)
  IN /\ variant = "enhanced"
     /\ k \in DOMAIN codeSnippets
     /\ k \in expandedSnippets
     /\ Count(fetches, k) = 1
     /\ codeSnippets[k].content = <<8, 9>>
     /\ getExpandedSnippetContent(k) = [i \in 1..12 |-> i + 2]

-----------------------------------------------------------------------------
(* Scroll mirroring of the two columns *)

OtherColumn(c) == IF c = "ts" THEN "python" ELSE "ts"
ScrollTopOf(c) == IF c = "ts" THEN tsScrollTop ELSE pythonScrollTop

\* element.scrollTop = value: the value is clamped to the scroll range
ClampScroll(c, value) ==
  IF value < 0 THEN 0 ELSE IF value > scrollMax[c] THEN scrollMax[c] ELSE value

\* handleScroll that mirrors whatever the guard says.
handleScrollUnguarded(source) ==
  LET target == OtherColumn(source)
      written == ClampScroll(target, ScrollTopOf(source))
  IN /\ isScrollingRef' = TRUE
     /\ tsScrollTop' = (IF target = "ts" THEN written ELSE tsScrollTop)
     /\ pythonScrollTop' = (IF target = "python" THEN written ELSE pythonScrollTop)
     /\ scrollTimers' = scrollTimers + 1
     /\ scrollEvents' =
          [c \in {"ts", "python"} |->
             IF c = source THEN {}
             ELSE IF written # ScrollTopOf(target)
                  THEN scrollEvents[c] \cup {"mirror"}
                  ELSE scrollEvents[c]]

\* handleScroll(sourceRef, targetRef), called for the scroll event of the
\* source column; both refs are attached.  Writing a scrollTop that differs
\* from the current one queues a scroll event for the target column.
handleScroll(source) ==
  LET target == OtherColumn(source)
      written == ClampScroll(target, ScrollTopOf(source))
  IN IF ~isScrollingRef
     THEN /\ isScrollingRef' = TRUE
          /\ tsScrollTop' = (IF target = "ts" THEN written ELSE tsScrollTop)
          /\ pythonScrollTop' = (IF target = "python" THEN written ELSE pythonScrollTop)
          /\ scrollTimers' = scrollTimers + 1
          /\ scrollEvents' =
               [c \in {"ts", "python"} |->
                  IF c = source THEN {}
                  ELSE IF written # ScrollTopOf(target)
                       THEN scrollEvents[c] \cup {"mirror"}
                       ELSE scrollEvents[c]]
     ELSE /\ scrollEvents' = [scrollEvents EXCEPT ![source] = {}]
          /\ UNCHANGED <<tsScrollTop, pythonScrollTop, isScrollingRef, scrollTimers>>

\* The user scrolls a column to another offset; its scroll event is queued
UserScrolls ==
  \E c \in {"ts", "python"} : \E offset \in 0..scrollMax[c] :
    /\ offset # ScrollTopOf(c)
    /\ tsScrollTop' = (IF c = "ts" THEN offset ELSE tsScrollTop)
    /\ pythonScrollTop' = (IF c = "python" THEN offset ELSE pythonScrollTop)
    /\ scrollEvents' = [scrollEvents EXCEPT ![c] = @ \cup {"user"}]
    /\ UNCHANGED <<isScrollingRef, scrollTimers, scrollMax, dataVars, callVars,
                   filterVars, boardVars, snipVars, cardVars, contextVars>>

\* onScroll of a column: its queued scroll event is dispatched
ScrollEvent ==
  \E c \in {"ts", "python"} :
    /\ scrollEvents[c] # {}
    /\ handleScroll(c)
    /\ UNCHANGED <<scrollMax, dataVars, callVars, filterVars, boardVars,
                   snipVars, cardVars, contextVars>>

\* The callback of setTimeout(..., 50)
ScrollTimeout ==
  /\ scrollTimers > 0
  /\ isScrollingRef' = FALSE
  /\ scrollTimers' = scrollTimers - 1
  /\ UNCHANGED <<tsScrollTop, pythonScrollTop, scrollEvents, scrollMax,
                 dataVars, callVars, filterVars, boardVars, snipVars, cardVars,
                 contextVars>>

\* The scroll ranges of the two columns, whose contents differ in height
ScrollMaxima == {MaxScroll - 1, MaxScroll}

InitScrollSpec ==
  /\ \E d \in SnippetData :
       tsData = d.ts /\ pythonData = d.py /\ variant = d.variant
  /\ ident = <<>>
  /\ cname = <<>>
  /\ origin = "ts"
  /\ InitView
  /\ InitSnippets
  /\ expandedClasses = {}
  /\ hideCommonMethods = {}
  /\ sortByLength = {}
  /\ NoCall
  /\ scrollMax \in [{"ts", "python"} -> ScrollMaxima]
  /\ tsScrollTop = 0
  /\ pythonScrollTop = 0
  /\ isScrollingRef = FALSE
  /\ scrollTimers = 0
  /\ scrollEvents = [c \in {"ts", "python"} |-> {}]

NextScroll ==
  \/ UserScrolls
  \/ ScrollEvent
  \/ ScrollTimeout

SpecScroll == InitScrollSpec /\ [][NextScroll]_vars

\* The offset of a column after a step
ScrollTopNext(c) == IF c = "ts" THEN tsScrollTop' ELSE pythonScrollTop'

\* A step that handles the scroll event of a column
Handled(c) == scrollEvents[c] # {} /\ scrollEvents'[c] = {}

\* C25 as stated: a scroll event handled while the guard is set changes no
\* offset and leaves the guard and its timer as they are; the scroll event
\* that a mirror write has produced is never mirrored back, whenever it is
\* handled; the guard is set only by a handled scroll event, which starts a
\* timer, and is cleared by that timer.
C25_NeverMirrorsBack ==
  [][\A c \in {"ts", "python"} :
       (Handled(c) /\ scrollEvents[c] = {"mirror"})
       => /\ tsScrollTop' = tsScrollTop
          /\ pythonScrollTop' = pythonScrollTop
          /\ isScrollingRef' = isScrollingRef
          /\ scrollTimers' = scrollTimers]_vars

\* C25, amended: a scroll event handled while the guard is set changes no
\* offset, queues no event and leaves the guard and its timer as they are,
\* so the scroll event that a mirror write has produced is not mirrored back
\* when it is handled before the timer has run; handled after the timer has
\* run it is mirrored like any other event: the other column gets the
\* offset of its column, clamped, and the guard is set again.  The guard is
\* set only by a handled scroll event, which starts a timer; it is cleared
\* only by the timer's callback; and it is set exactly while one timer is
\* pending.
C25_GuardedEventsIgnored ==
  /\ [][\A c \in {"ts", "python"} :
          /\ (Handled(c) /\ isScrollingRef)
               => /\ tsScrollTop' = tsScrollTop
                  /\ pythonScrollTop' = pythonScrollTop
                  /\ isScrollingRef' /\ scrollTimers' = scrollTimers
                  /\ scrollEvents'[OtherColumn(c)] = scrollEvents[OtherColumn(c)]
          /\ (Handled(c) /\ ~isScrollingRef)
               => /\ isScrollingRef' /\ scrollTimers' = scrollTimers + 1
                  /\ ScrollTopNext(c) = ScrollTopOf(c)
                  /\ ScrollTopNext(OtherColumn(c)) =
                       ClampScroll(OtherColumn(c), ScrollTopOf(c))]_vars
  /\ [][(~isScrollingRef /\ isScrollingRef')
         => \E c \in {"ts", "python"} : Handled(c)]_vars
  /\ [][(isScrollingRef /\ ~isScrollingRef')
         => /\ scrollTimers' = scrollTimers - 1
            /\ tsScrollTop' = tsScrollTop /\ pythonScrollTop' = pythonScrollTop
            /\ scrollEvents' = scrollEvents]_vars
  /\ [](scrollTimers \in {0, 1} /\ (isScrollingRef <=> scrollTimers = 1))

\* Both columns at offset 2 after a mirror, the guard set, its timer pending
\* and the scroll event of the mirror write handled
C25_Witness ==
  /\ tsScrollTop = 2 /\ pythonScrollTop = 2
  /\ isScrollingRef /\ scrollTimers = 1
  /\ scrollEvents = [c \in {"ts", "python"} |-> {}]

\* C30 as stated: whenever no scroll event is waiting to be handled and the
\* guard is clear, the two columns have the same scroll offset.
C30_ScrollConverges ==
  (scrollEvents = [c \in {"ts", "python"} |-> {}] /\ ~isScrollingRef)
    => tsScrollTop = pythonScrollTop

-----------------------------------------------------------------------------
(* Name matching of the leaderboards against the Matcher *)

\* The Matcher pairs the Python method p with the TypeScript method t of the
\* same class: the status of p is "both" when t is the only TypeScript method
MatcherPairs(p, t) ==
  getMethodComparisonStatus(p, Class(Name_A, <<Named(t)>>),
                            Class(Name_A, <<Named(p)>>), "python") = "both"

\* The leaderboards pair them: the lookup Map built from t has the key of p
LeaderboardPairs(p, t) ==
  IndexHas(IndexEntries(<<Class(Name_A, <<Named(t)>>)>>, "ts"),
           <<Name_A, normalizedName(p)>>)

\* C27: the TypeScript name the Matcher pairs a Python name with, its
\* camel-cased form, is also paired with it by the leaderboards; and every
\* other name that differs from the Python name only in letter case and in
\* its underscores is paired with it by the leaderboards and not by the
\* Matcher.
C27_LeaderboardCoarser ==
  stage # "start" =>
    /\ MatcherPairs(ident, norm1)
    /\ LeaderboardPairs(ident, norm1)
    /\ \A t \in CaseVariants(StripUnderscores(ident)) \ {norm1} :
         LeaderboardPairs(ident, t) /\ ~MatcherPairs(ident, t)

\* The Python name a_A: the Matcher pairs it with a_A alone, the leaderboards
\* also with aA, aa, Aa and AA
C27_Witness ==
  /\ stage = "once"
  /\ ident = <<"a", "_", "A">>
  /\ norm1 = ident
  /\ <<"a", "A">> \in CaseVariants(StripUnderscores(ident))
  /\ LeaderboardPairs(ident, <<"a", "A">>)
  /\ ~MatcherPairs(ident, <<"a", "A">>)

-----------------------------------------------------------------------------
(* The numbers of the ratio leaderboards *)

\* C28 as stated: every entry of a ratio leaderboard that is shown has a
\* positive shorter length and a finite ratio greater than 1, whatever line
\* numbers the methods carry.
C28_RatiosFinite ==
  /\ showRatioLeaderboard =>
       \A i \in 1..Len(findSizeRatioMethods) :
         LET e == findSizeRatioMethods[i]
         IN /\ e.tsLength > 0
            /\ e.ratio.den > 0
            /\ e.ratio.num > e.ratio.den
  /\ showTsRatioLeaderboard =>
       \A i \in 1..Len(findTsSizeRatioMethods) :
         LET e == findTsSizeRatioMethods[i]
         IN /\ e.pythonLength > 0
            /\ e.ratio.den > 0
            /\ e.ratio.num > e.ratio.den

====
